---- MODULE Spec2Model ----
(***************************************************************************)
(* A model of the ordered-tree family of dsa-js: AVLTree                   *)
(* (src/src/avl-tree.ts), BinarySearchTree (src/unnamed/part_003) and the  *)
(* IntervalTree built on a BinarySearchTree (src/src/interval-tree.ts).    *)
(*                                                                         *)
(* Objects live in heaps.  `nodes` is the heap of tree nodes: a sequence   *)
(* of records [value, left, right, height]; a node is named by its index   *)
(* and NULL (0) is `undefined`.  `itds` is the heap of IntervalTreeData    *)
(* objects, the values an IntervalTree stores in its backing tree.         *)
(* `trees` is the sequence of tree objects.  Every operation runs on the   *)
(* heap exactly as the code assigns its fields; at the end of an action    *)
(* the unreachable objects are collected and the reachable ones renamed    *)
(* in pre-order (a JavaScript reference has no observable address).        *)
(*                                                                         *)
(* `ghost` holds, per tree, the bag of elements the calls made so far      *)
(* should have left in it; `last` records the last call; `ops` counts the  *)
(* calls made on an IntervalTree and its clone since the clone was taken.  *)
(*                                                                         *)
(* The doubly linked list (src/src/linked-list.ts) has heaps of its own:   *)
(* `lnodes` is the heap of ListNode objects, records [value, next, prev,   *)
(* isDisposed], and `lists` the sequence of LinkedList objects.  A caller  *)
(* keeps the nodes a list hands out, so list nodes are never collected.    *)
(* A Queue, a Deque and an LRUCache (src/src/queue.ts, src/src/deque.ts,   *)
(* src/src/utils/comparator.ts) keep their list and its nodes to           *)
(* themselves: there the nodes no object refers to are collected.          *)
(* `cache` is the LRUCache's capacity and its Map from a key to the pair   *)
(* [value, node].  `dset` holds the two Maps of the DisjointSet            *)
(* (src/src/disjoint-set.ts).                                              *)
(***************************************************************************)
EXTENDS Integers, Sequences, FiniteSets, TLC

VARIABLES nodes, itds, trees, ghost, last, ops, lnodes, lists, cache, dset

vars == <<nodes, itds, trees, ghost, last, ops, lnodes, lists, cache, dset>>

\* ------------------------------------------------------------- bounds
MaxNodes == 7
MaxVal == 2
MaxCloneNodes == 3
MaxCloneVal == 2
MaxEntries == 3
MaxLower == 2
MaxUpper == 3
MaxTwins == 2
MaxCloneEntries == 4
MaxCloneOps == 2
MaxRangeEntries == 2
MaxArrayLen == 5
MaxArrayVal == 3
MaxClearNodes == 3
MaxListNodes == 4
MaxCapacity == 2
MaxLruKey == 3
MaxLruVal == 2
MaxQueueLen == 3
MaxQueueVal == 2
MaxDsNode == 2
MaxKeyedVal == 4
MaxKeyedNodes == 4
MaxInsertVal == 3
MaxInsertNodes == 6
MaxBalanceHeight == 3
MaxTieEntries == 6
MaxTieDeletes == 1

NULL == 0

Values == 1..MaxVal

CloneValues == 1..MaxCloneVal

Max(a, b) == IF a >= b THEN a ELSE b

Range(s) == {s[i] : i \in DOMAIN s}

\* No LRUCache and no DisjointSet: what `cache` and `dset` hold in the
\* specifications of the other classes.
NoCache == [capacity |-> 0, map |-> <<>>]

NoSets == [parent |-> <<>>, rank |-> <<>>]

\* Let(v, LAMBDA x : e) is LET x == v IN e: the result v of a call is named
\* once and used by the rest of the body.
Let(v, F(_)) == F(v)

\* ---------------------------------------------------------- comparators
\* The comparator a tree was constructed with: the default one, the
\* descending one of the tests, or the IntervalTree's (a, b) =>
\* a.lowerBound - b.lowerBound over the IntervalTreeData heap d.
defaultComparator(a, b) == IF a = b THEN 0 ELSE a - b

descendingComparator(a, b) == b - a

lowerBoundComparator(d, a, b) == d[a].lowerBound - d[b].lowerBound

\* A comparator by a key of the stored objects, as the IntervalTree's is:
\* the objects 1, 2, 3 are distinct and have one key, object 4 the next.
Key(a) == a \div 4

keyComparator(a, b) == Key(a) - Key(b)

Compare(d, cmp, a, b) ==
    CASE cmp = "default" -> defaultComparator(a, b)
      [] cmp = "descending" -> descendingComparator(a, b)
      [] cmp = "lowerBound" -> lowerBoundComparator(d, a, b)
      [] cmp = "byKey" -> keyComparator(a, b)

\* ------------------------------------------------------------ tree node
\* new AVLTreeNode(value): _left, _right undefined, _height 1.
NewNode(value) == [value |-> value, left |-> NULL, right |-> NULL, height |-> 1]

setLeft(h, n, c) == [h EXCEPT ![n].left = c]

setRight(h, n, c) == [h EXCEPT ![n].right = c]

setHeight(h, n, x) == [h EXCEPT ![n].height = x]

\* this._left?._height ?? 0
StoredHeight(h, n) == IF n = NULL THEN 0 ELSE h[n].height

updateHeight(h, n) ==
    setHeight(h, n, 1 + Max(StoredHeight(h, h[n].left), StoredHeight(h, h[n].right)))

\* rotateLeft that updates the height of the new root only.
rotateLeftStaleHeight(h, n) ==
    LET right == h[n].right IN
    IF right = NULL THEN [h |-> h, n |-> n]
    ELSE LET h1 == setRight(h, n, h[right].left)
             h2 == setLeft(h1, right, n)
             h4 == updateHeight(h2, right)
         IN [h |-> h4, n |-> right]

\* The rotations return the heap and the new root of the subtree.
rotateLeft(h, n) ==
    LET right == h[n].right IN
    IF right = NULL THEN [h |-> h, n |-> n]
    ELSE LET h1 == setRight(h, n, h[right].left)
             h2 == setLeft(h1, right, n)
             h3 == updateHeight(h2, n)
             h4 == updateHeight(h3, right)
         IN [h |-> h4, n |-> right]

rotateRight(h, n) ==
    LET left == h[n].left IN
    IF left = NULL THEN [h |-> h, n |-> n]
    ELSE LET h1 == setLeft(h, n, h[left].right)
             h2 == setRight(h1, left, n)
             h3 == updateHeight(h2, n)
             h4 == updateHeight(h3, left)
         IN [h |-> h4, n |-> left]

computeBalanceFactor(h, n) ==
    StoredHeight(h, h[n].left) - StoredHeight(h, h[n].right)

\* balance() that never rotates a child first.
balanceSingleOnly(h, n) ==
    Let(updateHeight(h, n), LAMBDA h1 :
        LET factor == computeBalanceFactor(h1, n)
        IN IF factor > 1 THEN rotateRight(h1, n)
           ELSE IF factor < -1 THEN rotateLeft(h1, n)
           ELSE [h |-> h1, n |-> n])

\* The branch balance() takes on node n: "left-right" and "right-left" are
\* the double rotations, "right" and "left" the single ones.
balanceCase(h, n) ==
    Let(updateHeight(h, n), LAMBDA h1 :
        LET factor == computeBalanceFactor(h1, n)
            left == h1[n].left
            right == h1[n].right
        IN IF factor > 1
           THEN IF left # NULL /\ computeBalanceFactor(h1, left) < 0
                THEN "left-right" ELSE "right"
           ELSE IF factor < -1
           THEN IF right # NULL /\ computeBalanceFactor(h1, right) > 0
                THEN "right-left" ELSE "left"
           ELSE "none")

balance(h, n) ==
    Let(updateHeight(h, n), LAMBDA h1 :
        LET factor == computeBalanceFactor(h1, n)
            left == h1[n].left
            right == h1[n].right
        IN IF factor > 1
           THEN IF left # NULL /\ computeBalanceFactor(h1, left) < 0
                THEN Let(rotateLeft(h1, left), LAMBDA r :
                         rotateRight(setLeft(r.h, n, r.n), n))
                ELSE rotateRight(h1, n)
           ELSE IF factor < -1
           THEN IF right # NULL /\ computeBalanceFactor(h1, right) > 0
                THEN Let(rotateRight(h1, right), LAMBDA r :
                         rotateLeft(setRight(r.h, n, r.n), n))
                ELSE rotateLeft(h1, n)
           ELSE [h |-> h1, n |-> n])

\* ----------------------------------------------------------- traversal
\* values(): the in-order generator, as the sequence of node ids.
RECURSIVE inorder(_, _)
inorder(h, n) ==
    IF n = NULL THEN <<>>
    ELSE inorder(h, h[n].left) \o <<n>> \o inorder(h, h[n].right)

NodeValues(h, ns) == [i \in DOMAIN ns |-> h[ns[i]].value]

\* toArray(): [...this.values()]
toArray(h, root) == NodeValues(h, inorder(h, root))

\* The real height of a subtree, counted on the links (absent = 0).
RECURSIVE RealHeight(_, _)
RealHeight(h, n) ==
    IF n = NULL THEN 0
    ELSE 1 + Max(RealHeight(h, h[n].left), RealHeight(h, h[n].right))

\* ----------------------------------------------------------------- insert
\* insertHelper with the comparison inverted (value > node goes left).
RECURSIVE insertHelperInverted(_, _, _, _, _, _)
insertHelperInverted(h, d, cmp, node, newNode, value) ==
    IF node = NULL THEN [h |-> h, n |-> newNode]
    ELSE IF Compare(d, cmp, value, h[node].value) > 0
         THEN Let(insertHelperInverted(h, d, cmp, h[node].left, newNode, value),
                  LAMBDA r : balance(setLeft(r.h, node, r.n), node))
         ELSE Let(insertHelperInverted(h, d, cmp, h[node].right, newNode, value),
                  LAMBDA r : balance(setRight(r.h, node, r.n), node))

\* The recursive helper of insert: descends by the comparator, places the
\* new node in the first absent slot and balances every node on the way back.
RECURSIVE insertHelper(_, _, _, _, _, _)
insertHelper(h, d, cmp, node, newNode, value) ==
    IF node = NULL THEN [h |-> h, n |-> newNode]
    ELSE IF Compare(d, cmp, value, h[node].value) < 0
         THEN Let(insertHelper(h, d, cmp, h[node].left, newNode, value),
                  LAMBDA r : balance(setLeft(r.h, node, r.n), node))
         ELSE Let(insertHelper(h, d, cmp, h[node].right, newNode, value),
                  LAMBDA r : balance(setRight(r.h, node, r.n), node))

\* insert(value) on tree object tr: the heap and the tree object afterwards.
insert(h, d, tr, value) ==
    Let(insertHelper(Append(h, NewNode(value)), d, tr.comparator, tr.root,
                     Len(h) + 1, value),
        LAMBDA r : [h |-> r.h,
                    tree |-> [tr EXCEPT !.size = tr.size + 1, !.root = r.n]])

\* ----------------------------------------------------------------- delete
\* The while loop of delete: the leftmost node below `successor`, with its
\* parent (NULL while successor is still the right child).
RECURSIVE leftmost(_, _, _)
leftmost(h, successor, successorParent) ==
    IF h[successor].left # NULL
    THEN leftmost(h, h[successor].left, successor)
    ELSE [successor |-> successor, successorParent |-> successorParent]

\* deleteFound that hands back as newSuccessor the node balance() returns
\* (the root of the subtree after the rotations) instead of the successor.
deleteFoundReturningRoot(h, node) ==
    LET left == h[node].left
        right == h[node].right
    IN IF left # NULL /\ right # NULL
       THEN Let(leftmost(h, right, NULL), LAMBDA s :
                LET successor == s.successor
                    successorParent == s.successorParent
                    h1 == setLeft(h, successor, left)
                    h2 == IF successor # right
                          THEN setRight(h1, successor, right) ELSE h1
                    h3 == IF successorParent # NULL
                          THEN setLeft(h2, successorParent, NULL) ELSE h2
                    h4 == setRight(setLeft(h3, node, NULL), node, NULL)
                IN Let(balance(h4, successor), LAMBDA b :
                       [h |-> b.h, n |-> b.n, newSuccessor |-> b.n,
                        kind |-> IF successor = right THEN "two-right"
                                 ELSE IF h[successor].right # NULL
                                 THEN "two-deep-right"
                                 ELSE "two-deep"]))
       ELSE LET newSuccessor == IF left # NULL THEN left ELSE right
                h4 == setRight(setLeft(h, node, NULL), node, NULL)
                kind == IF left # NULL THEN "left"
                        ELSE IF right # NULL THEN "right" ELSE "leaf"
            IN IF newSuccessor = NULL
               THEN [h |-> h4, n |-> NULL, newSuccessor |-> NULL, kind |-> kind]
               ELSE Let(balance(h4, newSuccessor), LAMBDA b :
                        [h |-> b.h, n |-> b.n, newSuccessor |-> b.n,
                         kind |-> kind])

\* deleteFound without the two calls that detach the node: the removed
\* node keeps its child links.
deleteFoundKeepingLinks(h, node) ==
    LET left == h[node].left
        right == h[node].right
    IN IF left # NULL /\ right # NULL
       THEN Let(leftmost(h, right, NULL), LAMBDA s :
                LET successor == s.successor
                    successorParent == s.successorParent
                    h1 == setLeft(h, successor, left)
                    h2 == IF successor # right
                          THEN setRight(h1, successor, right) ELSE h1
                    h3 == IF successorParent # NULL
                          THEN setLeft(h2, successorParent, NULL) ELSE h2
                IN Let(balance(h3, successor), LAMBDA b :
                       [h |-> b.h, n |-> b.n, newSuccessor |-> successor,
                        kind |-> IF successor = right THEN "two-right"
                                 ELSE IF h[successor].right # NULL
                                 THEN "two-deep-right"
                                 ELSE "two-deep"]))
       ELSE LET newSuccessor == IF left # NULL THEN left ELSE right
                kind == IF left # NULL THEN "left"
                        ELSE IF right # NULL THEN "right" ELSE "leaf"
            IN IF newSuccessor = NULL
               THEN [h |-> h, n |-> NULL, newSuccessor |-> NULL, kind |-> kind]
               ELSE Let(balance(h, newSuccessor), LAMBDA b :
                        [h |-> b.h, n |-> b.n, newSuccessor |-> newSuccessor,
                         kind |-> kind])

\* The branch of the helper that runs when the node to delete is found.
\* kind names the case: "leaf", "left", "right" (one child), "two-right"
\* (the successor is the right child), "two-deep" (it is not).
deleteFound(h, node) ==
    LET left == h[node].left
        right == h[node].right
    IN IF left # NULL /\ right # NULL
       THEN Let(leftmost(h, right, NULL), LAMBDA s :
                LET successor == s.successor
                    successorParent == s.successorParent
                    h1 == setLeft(h, successor, left)
                    h2 == IF successor # right
                          THEN setRight(h1, successor, right) ELSE h1
                    h3 == IF successorParent # NULL
                          THEN setLeft(h2, successorParent, NULL) ELSE h2
                    h4 == setRight(setLeft(h3, node, NULL), node, NULL)
                IN Let(balance(h4, successor), LAMBDA b :
                       [h |-> b.h, n |-> b.n, newSuccessor |-> successor,
                        kind |-> IF successor = right THEN "two-right"
                                 ELSE IF h[successor].right # NULL
                                 THEN "two-deep-right"
                                 ELSE "two-deep"]))
       ELSE LET newSuccessor == IF left # NULL THEN left ELSE right
                h4 == setRight(setLeft(h, node, NULL), node, NULL)
                kind == IF left # NULL THEN "left"
                        ELSE IF right # NULL THEN "right" ELSE "leaf"
            IN IF newSuccessor = NULL
               THEN [h |-> h4, n |-> NULL, newSuccessor |-> NULL, kind |-> kind]
               ELSE Let(balance(h4, newSuccessor), LAMBDA b :
                        [h |-> b.h, n |-> b.n, newSuccessor |-> newSuccessor,
                         kind |-> kind])

\* The recursive helper of delete.  found says whether the branch above ran
\* (this._size-- and the assignment of newSuccessor).
RECURSIVE deleteHelper(_, _, _, _, _)
deleteHelper(h, d, cmp, node, value) ==
    IF node = NULL
    THEN [h |-> h, n |-> NULL, found |-> FALSE, newSuccessor |-> NULL, kind |-> "none"]
    ELSE IF value = h[node].value
    THEN Let(deleteFound(h, node), LAMBDA f :
             [h |-> f.h, n |-> f.n, found |-> TRUE,
              newSuccessor |-> f.newSuccessor, kind |-> f.kind])
    ELSE IF Compare(d, cmp, value, h[node].value) < 0
    THEN Let(deleteHelper(h, d, cmp, h[node].left, value), LAMBDA r :
             Let(balance(setLeft(r.h, node, r.n), node), LAMBDA b :
                 [r EXCEPT !.h = b.h, !.n = b.n]))
    ELSE Let(deleteHelper(h, d, cmp, h[node].right, value), LAMBDA r :
             Let(balance(setRight(r.h, node, r.n), node), LAMBDA b :
                 [r EXCEPT !.h = b.h, !.n = b.n]))

\* delete that decrements the size whether or not a node was found.
deleteCountingAlways(h, d, tr, value) ==
    Let(deleteHelper(h, d, tr.comparator, tr.root, value), LAMBDA r :
        [h |-> r.h,
         tree |-> [tr EXCEPT !.size = tr.size - 1, !.root = r.n],
         ret |-> r.newSuccessor, found |-> r.found, kind |-> r.kind])

\* delete(value) on tree object tr: the heap, the tree object and the
\* returned node (newSuccessor) afterwards.
delete(h, d, tr, value) ==
    Let(deleteHelper(h, d, tr.comparator, tr.root, value), LAMBDA r :
        [h |-> r.h,
         tree |-> [tr EXCEPT !.size = IF r.found THEN tr.size - 1 ELSE tr.size,
                             !.root = r.n],
         ret |-> r.newSuccessor, found |-> r.found, kind |-> r.kind])

\* -------------------------------------------------- rebuild, clear, clone
\* The helper of fromSortedArray with the first element of each sub-range,
\* not the middle one, as the root of the subtree.
RECURSIVE sortedHelperFromLeft(_, _, _, _)
sortedHelperFromLeft(h, array, left, right) ==
    IF left > right THEN [h |-> h, n |-> NULL]
    ELSE LET mid == left
             root == Len(h) + 1
             h0 == Append(h, NewNode(array[mid + 1]))
             l == sortedHelperFromLeft(h0, array, left, mid - 1)
             h1 == setLeft(l.h, root, l.n)
             r == sortedHelperFromLeft(h1, array, mid + 1, right)
             h2 == setRight(r.h, root, r.n)
         IN [h |-> updateHeight(h2, root), n |-> root]

\* The helper of fromSortedArray over array (0-based bounds left..right, as
\* in the code): the middle element becomes the root of each sub-range.
RECURSIVE sortedHelper(_, _, _, _)
sortedHelper(h, array, left, right) ==
    IF left > right THEN [h |-> h, n |-> NULL]
    ELSE LET mid == (left + right) \div 2
             root == Len(h) + 1
             h0 == Append(h, NewNode(array[mid + 1]))
             l == sortedHelper(h0, array, left, mid - 1)
             h1 == setLeft(l.h, root, l.n)
             r == sortedHelper(h1, array, mid + 1, right)
             h2 == setRight(r.h, root, r.n)
         IN [h |-> updateHeight(h2, root), n |-> root]

\* fromSortedArray(array): a new tree object (default comparator when none
\* is passed) over new nodes.
fromSortedArray(h, array, cls, cmp) ==
    LET r == sortedHelper(h, array, 0, Len(array) - 1)
    IN [h |-> r.h,
        tree |-> [cls |-> cls, comparator |-> cmp, root |-> r.n, size |-> Len(array)]]

\* rebuild() that keeps the root it has.
rebuildKeepingRoot(h, tr) == [h |-> h, tree |-> tr]

\* rebuild(): this._root = AVLTree.fromSortedArray(this.toArray())._root
rebuild(h, tr) ==
    Let(fromSortedArray(h, toArray(h, tr.root), tr.cls, "default"), LAMBDA r :
        [h |-> r.h, tree |-> [tr EXCEPT !.root = r.tree.root]])

\* clear() that drops the root and keeps the size.
clearKeepingSize(tr) == [tr EXCEPT !.root = NULL]

\* clear(): _root = undefined, _size = 0
clear(tr) == [tr EXCEPT !.root = NULL, !.size = 0]

\* The cloneNode helper of clone(): a new node per node, same value, the
\* stored height copied.
RECURSIVE cloneNode(_, _)
cloneNode(h, node) ==
    IF node = NULL THEN [h |-> h, n |-> NULL]
    ELSE LET newNode == Len(h) + 1
             h0 == Append(h, NewNode(h[node].value))
             l == cloneNode(h0, h[node].left)
             h1 == setLeft(l.h, newNode, l.n)
             r == cloneNode(h1, h[node].right)
             h2 == setRight(r.h, newNode, r.n)
         IN [h |-> setHeight(h2, newNode, h[node].height), n |-> newNode]

\* clone() that hands out the root of this tree instead of copying it.
cloneSharingRoot(h, tr) == [h |-> h, tree |-> tr]

\* clone(): a new tree object with the comparator and the size of this one.
clone(h, tr) ==
    LET r == cloneNode(h, tr.root)
    IN [h |-> r.h, tree |-> [tr EXCEPT !.root = r.n]]

\* size(), isEmpty(), height(), min(), max() of a tree object.
size(tr) == tr.size

isEmpty(tr) == tr.size = 0

height(h, tr) == IF tr.root = NULL THEN 0 ELSE h[tr.root].height

\* The while loop of min(): the node at the end of the chain of left links.
RECURSIVE minLoop(_, _)
minLoop(h, current) ==
    IF h[current].left # NULL THEN minLoop(h, h[current].left) ELSE current

\* The while loop of max(): the node at the end of the chain of right links.
RECURSIVE maxLoop(_, _)
maxLoop(h, current) ==
    IF h[current].right # NULL THEN maxLoop(h, h[current].right) ELSE current

\* min() that stops at the root.
minOfRoot(h, tr) == IF tr.root = NULL THEN NULL ELSE h[tr.root].value

\* min(): undefined (NULL) on an empty tree.
min(h, tr) == IF tr.root = NULL THEN NULL ELSE h[minLoop(h, tr.root)].value

\* max(): undefined (NULL) on an empty tree.
max(h, tr) == IF tr.root = NULL THEN NULL ELSE h[maxLoop(h, tr.root)].value

\* The loop of BinarySearchTree.filter over arr = toArray(), from its last
\* element (i = Len(arr)) down to its first; keep is the set of values the
\* filter function accepts.
RECURSIVE filterDown(_, _, _, _, _, _, _)
filterDown(h, d, tr, arr, i, keep, deleted) ==
    IF i = 0 THEN [h |-> h, tree |-> tr, deleted |-> deleted]
    ELSE IF arr[i] \in keep
    THEN filterDown(h, d, tr, arr, i - 1, keep, deleted)
    ELSE Let(delete(h, d, tr, arr[i]), LAMBDA r :
             filterDown(r.h, d, r.tree, arr, i - 1, keep, Append(deleted, arr[i])))

\* BinarySearchTree.filter(filterFunction): heap, tree and returned array.
filter(h, d, tr, keep) ==
    Let(toArray(h, tr.root), LAMBDA arr :
        filterDown(h, d, tr, arr, Len(arr), keep, <<>>))

\* --------------------------------------------------- object identity
\* The nodes reachable from the roots in `stack`, in pre-order, each once.
RECURSIVE Preorder(_, _, _)
Preorder(h, stack, seen) ==
    IF stack = <<>> THEN seen
    ELSE LET n == Head(stack) IN
         IF n = NULL \/ n \in Range(seen) THEN Preorder(h, Tail(stack), seen)
         ELSE Preorder(h, <<h[n].left, h[n].right>> \o Tail(stack), Append(seen, n))

IndexOf(s, x) == IF x = NULL THEN NULL ELSE CHOOSE i \in DOMAIN s : s[i] = x

\* The distinct elements of s in the order of their first occurrence.
RECURSIVE Distinct(_, _)
Distinct(s, seen) ==
    IF s = <<>> THEN seen
    ELSE Distinct(Tail(s), IF Head(s) \in Range(seen) THEN seen ELSE Append(seen, Head(s)))

Roots(ts) == [t \in DOMAIN ts |-> ts[t].root]

IsIntervalTree(tr) == tr.comparator = "lowerBound"

\* The heaps after collection: only the objects reachable from the trees
\* ts remain, renamed by their pre-order position.  A record of the new
\* node heap, the new IntervalTreeData heap and the new tree objects.
Collect(h, d, ts) ==
    LET order == Preorder(h, Roots(ts), <<>>)
        interval == \E t \in DOMAIN ts : IsIntervalTree(ts[t])
        dorder == IF interval
                  THEN Distinct([i \in DOMAIN order |-> h[order[i]].value], <<>>)
                  ELSE <<>>
        val(v) == IF interval THEN IndexOf(dorder, v) ELSE v
    IN [nodes |-> [i \in DOMAIN order |->
                     [value |-> val(h[order[i]].value),
                      left |-> IndexOf(order, h[order[i]].left),
                      right |-> IndexOf(order, h[order[i]].right),
                      height |-> h[order[i]].height]],
        itds |-> [i \in DOMAIN dorder |-> d[dorder[i]]],
        trees |-> [t \in DOMAIN ts |-> [ts[t] EXCEPT !.root = IndexOf(order, ts[t].root)]]]

\* ------------------------------------------------------------- ghost
\* A bag as the set of pairs <<element, k>>, k = 1..multiplicity.
Count(bag, e) == Cardinality({p \in bag : p[1] = e})

BagAdd(bag, e) == bag \cup {<<e, Count(bag, e) + 1>>}

BagRemove(bag, e) == bag \ {<<e, Count(bag, e)>>}

BagOfSeq(s) == {<<s[i], Cardinality({j \in 1..i : s[j] = s[i]})>> : i \in DOMAIN s}

InBag(bag, e) == Count(bag, e) > 0

\* ------------------------------------------------------------ actions
Op(op, t, arg, ret, kind) == [op |-> op, t |-> t, arg |-> arg, ret |-> ret, kind |-> kind]

Commit(h, d, ts) ==
    Let(Collect(h, d, ts), LAMBDA c :
        /\ nodes' = c.nodes
        /\ itds' = c.itds
        /\ trees' = c.trees
        /\ UNCHANGED <<lnodes, lists, cache, dset>>)

\* tree.insert(v)
Insert(t, v, bound) ==
    /\ ~IsIntervalTree(trees[t])
    /\ size(trees[t]) < bound
    /\ Let(insert(nodes, itds, trees[t], v), LAMBDA r :
           Commit(r.h, itds, [trees EXCEPT ![t] = r.tree]))
    /\ ghost' = [ghost EXCEPT ![t] = BagAdd(@, v)]
    /\ last' = Op("insert", t, v, NULL, "none")

\* tree.delete(v); the returned node is recorded by its value.
Delete(t, v) ==
    /\ ~IsIntervalTree(trees[t])
    /\ Let(delete(nodes, itds, trees[t], v), LAMBDA r :
           /\ Commit(r.h, itds, [trees EXCEPT ![t] = r.tree])
           /\ last' = Op("delete", t, v,
                         IF r.ret = NULL THEN NULL ELSE r.h[r.ret].value, r.kind))
    /\ ghost' = [ghost EXCEPT ![t] = BagRemove(@, v)]

\* bst.filter(x => x in keep)
Filter(t, keep) ==
    /\ trees[t].cls = "BinarySearchTree"
    /\ ~IsIntervalTree(trees[t])
    /\ Let(filter(nodes, itds, trees[t], keep), LAMBDA r :
           Commit(r.h, itds, [trees EXCEPT ![t] = r.tree]))
    /\ ghost' = [ghost EXCEPT ![t] = {p \in @ : p[1] \in keep}]
    /\ last' = Op("filter", t, NULL, NULL, "none")

\* avlTree.rebuild()
Rebuild(t) ==
    /\ trees[t].cls = "AVLTree"
    /\ Let(rebuild(nodes, trees[t]), LAMBDA r :
           Commit(r.h, itds, [trees EXCEPT ![t] = r.tree]))
    /\ UNCHANGED ghost
    /\ last' = Op("rebuild", t, NULL, NULL, "none")

\* tree.clear()
Clear(t) ==
    /\ ~IsIntervalTree(trees[t])
    /\ Commit(nodes, itds, [trees EXCEPT ![t] = clear(@)])
    /\ ghost' = [ghost EXCEPT ![t] = {}]
    /\ last' = Op("clear", t, NULL, NULL, "none")

\* A single AVLTree or BinarySearchTree, constructed with the default or
\* with the descending comparator.
EmptyTree(cls, cmp) == [cls |-> cls, comparator |-> cmp, root |-> NULL, size |-> 0]

Init ==
    /\ nodes = <<>>
    /\ itds = <<>>
    /\ \E cls \in {"AVLTree", "BinarySearchTree"}, cmp \in {"default", "descending"} :
          trees = <<EmptyTree(cls, cmp)>>
    /\ ghost = <<{}>>
    /\ last = Op("new", 1, NULL, NULL, "none")
    /\ ops = 0
    /\ lnodes = <<>>
    /\ lists = <<>>
    /\ cache = NoCache
    /\ dset = NoSets

Next ==
    \/ \E v \in Values : Insert(1, v, MaxNodes) /\ UNCHANGED ops
    \/ \E v \in Values : Delete(1, v) /\ UNCHANGED ops
    \/ Rebuild(1) /\ UNCHANGED ops
    \/ Clear(1) /\ UNCHANGED ops
    \/ \E keep \in SUBSET Values : Filter(1, keep) /\ UNCHANGED ops

Spec == Init /\ [][Next]_vars

\* tree.clone(): the model holds the original and one clone of it.
Clone(t) ==
    /\ ~IsIntervalTree(trees[t])
    /\ Len(trees) = 1
    /\ Let(clone(nodes, trees[t]), LAMBDA r :
           Commit(r.h, itds, Append(trees, r.tree)))
    /\ ghost' = Append(ghost, ghost[t])
    /\ last' = Op("clone", t, NULL, NULL, "none")

\* A tree and its clone, each operated independently afterwards.
NextClone ==
    \/ Clone(1) /\ UNCHANGED ops
    \/ \E t \in DOMAIN trees, v \in CloneValues :
          Insert(t, v, MaxCloneNodes) /\ UNCHANGED ops
    \/ \E t \in DOMAIN trees, v \in CloneValues : Delete(t, v) /\ UNCHANGED ops
    \/ \E t \in DOMAIN trees : Rebuild(t) /\ UNCHANGED ops
    \/ \E t \in DOMAIN trees : Clear(t) /\ UNCHANGED ops

SpecClone == Init /\ [][NextClone]_vars

\* ------------------------------------------------------ inserts only
\* A tree that only ever receives insert calls.
InsertValues == 1..MaxInsertVal

NextInsert == \E v \in InsertValues : Insert(1, v, MaxInsertNodes) /\ UNCHANGED ops

SpecInsert == Init /\ [][NextInsert]_vars

\* ------------------------------------------------ balance() on a node
\* The shapes of the balanced trees of height k: <<>> is the absent
\* subtree, <<l, r>> a node over the shapes of its two subtrees.
RECURSIVE AvlShapes(_)
AvlShapes(k) ==
    IF k = 0 THEN {<<>>}
    ELSE IF k = 1 THEN {<< <<>>, <<>> >>}
    ELSE {<<l, r>> : l \in AvlShapes(k - 1), r \in AvlShapes(k - 1)}
         \cup {<<l, r>> : l \in AvlShapes(k - 1), r \in AvlShapes(k - 2)}
         \cup {<<l, r>> : l \in AvlShapes(k - 2), r \in AvlShapes(k - 1)}

RECURSIVE ShapeSize(_)
ShapeSize(shape) ==
    IF shape = <<>> THEN 0 ELSE 1 + ShapeSize(shape[1]) + ShapeSize(shape[2])

RECURSIVE ShapeHeight(_)
ShapeHeight(shape) ==
    IF shape = <<>> THEN 0
    ELSE 1 + Max(ShapeHeight(shape[1]), ShapeHeight(shape[2]))

\* The nodes of a subtree of the given shape, added to heap h: a node's
\* value is its in-order position after the first `base` values and its
\* stored height is its real height.
RECURSIVE Subtree(_, _, _)
Subtree(h, shape, base) ==
    IF shape = <<>> THEN [h |-> h, n |-> NULL]
    ELSE Let(Subtree(h, shape[1], base), LAMBDA l :
         Let(Subtree(l.h, shape[2], base + ShapeSize(shape[1]) + 1), LAMBDA r :
             [h |-> Append(r.h, [value |-> base + ShapeSize(shape[1]) + 1,
                                 left |-> l.n, right |-> r.n,
                                 height |-> ShapeHeight(shape)]),
              n |-> Len(r.h) + 1]))

\* A node whose left and right subtrees have the given shapes; its own
\* stored height is the one a new node has.
NodeOver(left, right) ==
    Let(Subtree(<<>>, left, 0), LAMBDA l :
    Let(Subtree(l.h, right, ShapeSize(left) + 1), LAMBDA r :
        [h |-> Append(r.h, [value |-> ShapeSize(left) + 1,
                            left |-> l.n, right |-> r.n, height |-> 1]),
         n |-> Len(r.h) + 1]))

\* The inputs of balance(): a node over two balanced subtrees with correct
\* stored heights that differ in height by at most 2.
InitBalance ==
    /\ itds = <<>>
    /\ \E a \in 0..MaxBalanceHeight, b \in 0..MaxBalanceHeight :
          /\ a - b \in -2..2
          /\ \E left \in AvlShapes(a), right \in AvlShapes(b) :
                Let(NodeOver(left, right), LAMBDA r :
                    /\ nodes = r.h
                    /\ trees = <<[cls |-> "AVLTree", comparator |-> "default",
                                  root |-> r.n, size |-> Len(r.h)]>>)
    /\ ghost = <<{}>>
    /\ last = Op("new", 1, NULL, NULL, "none")
    /\ ops = 0
    /\ lnodes = <<>>
    /\ lists = <<>>
    /\ cache = NoCache
    /\ dset = NoSets

\* node.balance() on the node; the caller puts the returned node in the
\* place of the node.
Balance ==
    /\ last.op = "new"
    /\ Let(balance(nodes, trees[1].root), LAMBDA r :
           Commit(r.h, itds, [trees EXCEPT ![1].root = r.n]))
    /\ last' = Op("balance", 1, NULL, NULL, balanceCase(nodes, trees[1].root))
    /\ UNCHANGED <<ghost, ops>>

NextBalance == Balance

SpecBalance == InitBalance /\ [][NextBalance]_vars

\* ------------------------------------------------- objects with a key
\* A single AVLTree or BinarySearchTree constructed with the comparator by
\* key, storing objects of which several have the same key.
KeyedValues == 1..MaxKeyedVal

InitKeyed ==
    /\ nodes = <<>>
    /\ itds = <<>>
    /\ \E cls \in {"AVLTree", "BinarySearchTree"} : trees = <<EmptyTree(cls, "byKey")>>
    /\ ghost = <<{}>>
    /\ last = Op("new", 1, NULL, NULL, "none")
    /\ ops = 0
    /\ lnodes = <<>>
    /\ lists = <<>>
    /\ cache = NoCache
    /\ dset = NoSets

NextKeyed ==
    \/ \E v \in KeyedValues : Insert(1, v, MaxKeyedNodes) /\ UNCHANGED ops
    \/ \E v \in KeyedValues : Delete(1, v) /\ UNCHANGED ops

SpecKeyed == InitKeyed /\ [][NextKeyed]_vars

\* ------------------------------------------------- static constructors
\* The arrays handed to fromArray and fromSortedArray.
ArrayValues == 1..MaxArrayVal

Arrays == UNION {[1..n -> ArrayValues] : n \in 0..MaxArrayLen}

\* array.forEach((data) => tree.insert(data)), from index i on.
RECURSIVE forEachInsert(_, _, _, _)
forEachInsert(h, tr, array, i) ==
    IF i > Len(array) THEN [h |-> h, tree |-> tr]
    ELSE Let(insert(h, <<>>, tr, array[i]), LAMBDA r :
             forEachInsert(r.h, r.tree, array, i + 1))

\* fromArray that leaves out the first element of the array.
fromArrayTail(h, array, cls, cmp) ==
    forEachInsert(h, EmptyTree(cls, cmp), array, 2)

\* fromArray(array, comparator): a new tree and an insert per element.
fromArray(h, array, cls, cmp) ==
    forEachInsert(h, EmptyTree(cls, cmp), array, 1)

\* The comparator handed to the constructor; none means the default one.
Comparators == {"default", "descending"}

Classes == {"AVLTree", "BinarySearchTree"}

\* array is sorted under the comparator cmp.
IsSorted(array, cmp) ==
    \A i \in 1..(Len(array) - 1) : Compare(<<>>, cmp, array[i], array[i + 1]) <= 0

\* Cls.fromArray(array, comparator)
FromArray(array, cls, cmp) ==
    /\ trees = <<>>
    /\ Let(fromArray(nodes, array, cls, cmp), LAMBDA r :
           Commit(r.h, itds, <<r.tree>>))
    /\ ghost' = <<BagOfSeq(array)>>
    /\ last' = Op("fromArray", 1, array, NULL, "none")

\* Cls.fromSortedArray(array, comparator), array sorted under the comparator.
FromSortedArray(array, cls, cmp) ==
    /\ trees = <<>>
    /\ IsSorted(array, cmp)
    /\ Let(fromSortedArray(nodes, array, cls, cmp), LAMBDA r :
           Commit(r.h, itds, <<r.tree>>))
    /\ ghost' = <<BagOfSeq(array)>>
    /\ last' = Op("fromSortedArray", 1, array, NULL, "none")

\* No tree exists before a static constructor is called.
InitFrom ==
    /\ nodes = <<>>
    /\ itds = <<>>
    /\ trees = <<>>
    /\ ghost = <<>>
    /\ last = Op("none", 1, <<>>, NULL, "none")
    /\ ops = 0
    /\ lnodes = <<>>
    /\ lists = <<>>
    /\ cache = NoCache
    /\ dset = NoSets

NextFrom ==
    \/ /\ trees = <<>>
       /\ \E array \in Arrays, cls \in Classes, cmp \in Comparators :
             FromArray(array, cls, cmp) /\ UNCHANGED ops
    \/ /\ trees = <<>>
       /\ \E array \in Arrays, cls \in Classes, cmp \in Comparators :
             FromSortedArray(array, cls, cmp) /\ UNCHANGED ops

SpecFrom == InitFrom /\ [][NextFrom]_vars

\* ======================================================= IntervalTree
\* The user's data objects: the rangeMapper reads the interval off the
\* object; two objects with the same interval differ by identity (id).
DataUniverse == [id : 1..MaxTwins, lower : 1..MaxLower, upper : 1..MaxUpper]

rangeMapper(data) == <<data.lower, data.upper>>

\* Query bounds reach one below and one above the stored bounds.
QueryBounds == 0..(MaxUpper + 1)

RangeBounds == 1..MaxUpper

\* new IntervalTreeData(lowerBound, upperBound, maxUpperBound, data)
IntervalTreeData(lowerBound, upperBound, maxUpperBound, data) ==
    [data |-> data, lowerBound |-> lowerBound, upperBound |-> upperBound,
     maxUpperBound |-> maxUpperBound]

\* isOverlapping with <= for <: touching intervals overlap.
isOverlappingTouching(lowA, highA, lowB, highB) == lowA <= highB /\ lowB <= highA

\* isOverlapping(lowA, highA, lowB, highB) raises a RangeError when one of
\* the two intervals has its bounds the wrong way round.
isOverlappingThrows(lowA, highA, lowB, highB) == lowA > highA \/ lowB > highB

\* isOverlapping(lowA, highA, lowB, highB) for valid intervals.
isOverlapping(lowA, highA, lowB, highB) == lowA < highB /\ lowB < highA

\* The test of rangeQuery and deleteInRange on one stored interval.
Matches(lower, upper, inclusive, lowerBound, upperBound) ==
    \/ inclusive /\ (lowerBound = upper \/ upperBound = lower)
    \/ isOverlapping(lower, upper, lowerBound, upperBound)

\* The same test raises a RangeError: isOverlapping is only called when
\* `inclusive && (lowerBound === upper || upperBound === lower)` is false.
MatchThrows(lower, upper, inclusive, lowerBound, upperBound) ==
    /\ ~(inclusive /\ (lowerBound = upper \/ upperBound = lower))
    /\ isOverlappingThrows(lower, upper, lowerBound, upperBound)

\* _traverseTo(data): the sequence of {node, parent} it yields.
RECURSIVE traverseDfs(_, _, _, _, _, _)
traverseDfs(h, d, node, parent, data, value) ==
    IF node = NULL THEN <<>>
    ELSE IF d[h[node].value].data = data
    THEN <<[node |-> node, parent |-> parent]>>
    ELSE (IF value < d[h[node].value].lowerBound
          THEN traverseDfs(h, d, h[node].left, node, data, value)
          ELSE traverseDfs(h, d, h[node].right, node, data, value))
         \o <<[node |-> node, parent |-> parent]>>

traverseTo(h, d, tr, data) ==
    traverseDfs(h, d, tr.root, NULL, data, rangeMapper(data)[1])

\* The body of the loop of _recomputeMaxUpperBound for one node.
recomputeNode(h, d, node) ==
    LET upperBound == d[h[node].value].upperBound
        l == IF h[node].left = NULL THEN upperBound
             ELSE d[h[h[node].left].value].maxUpperBound
        r == IF h[node].right = NULL THEN upperBound
             ELSE d[h[h[node].right].value].maxUpperBound
    IN [d EXCEPT ![h[node].value].maxUpperBound = Max(upperBound, Max(l, r))]

RECURSIVE recomputePath(_, _, _)
recomputePath(h, d, path) ==
    IF path = <<>> THEN d
    ELSE recomputePath(h, recomputeNode(h, d, Head(path).node), Tail(path))

\* _recomputeMaxUpperBound(data): the IntervalTreeData heap afterwards.
recomputeMaxUpperBound(h, d, tr, data) ==
    recomputePath(h, d, traverseTo(h, d, tr, data))

\* insert without the check of the range.
insertAcceptsAll(data) == FALSE

\* IntervalTree.insert(data) raises a RangeError: lower > upper.
insertRejects(data) == rangeMapper(data)[1] > rangeMapper(data)[2]

\* IntervalTree.insert(data) for a valid range: heaps and tree afterwards.
intervalInsert(h, d, tr, data) ==
    LET lower == rangeMapper(data)[1]
        upper == rangeMapper(data)[2]
        newNode == Len(d) + 1
        d0 == Append(d, IntervalTreeData(lower, upper, upper, data))
    IN Let(insert(h, d0, tr, newNode), LAMBDA r :
           [h |-> r.h, d |-> recomputeMaxUpperBound(r.h, d0, r.tree, data),
            tree |-> r.tree])

\* IntervalTree.delete(data).  Only the first node _traverseTo yields can
\* hold data; the nodes yielded after it are its ancestors.
intervalDelete(h, d, tr, data) ==
    LET path == traverseTo(h, d, tr, data)
    IN IF path = <<>> \/ d[h[Head(path).node].value].data # data
       THEN [h |-> h, d |-> d, tree |-> tr, found |-> FALSE, kind |-> "none"]
       ELSE Let(delete(h, d, tr, h[Head(path).node].value), LAMBDA r :
                LET successor == IF r.ret # NULL THEN r.ret ELSE Head(path).parent
                IN [h |-> r.h,
                    d |-> IF successor # NULL
                          THEN recomputeMaxUpperBound(r.h, d, r.tree,
                                                      d[r.h[successor].value].data)
                          ELSE d,
                    tree |-> r.tree, found |-> r.found, kind |-> r.kind])

\* The dfs of filter: the stored IntervalTreeData in pre-order.
RECURSIVE filterDfs(_, _)
filterDfs(h, node) ==
    IF node = NULL THEN <<>>
    ELSE <<h[node].value>> \o filterDfs(h, h[node].left) \o filterDfs(h, h[node].right)

\* The delete loop of filter over arr (the data of the collected
\* IntervalTreeData); keep is the set of data the filter function accepts.
RECURSIVE filterLoop(_, _, _, _, _, _)
filterLoop(h, d, tr, arr, keep, deleted) ==
    IF arr = <<>> THEN [h |-> h, d |-> d, tree |-> tr, deleted |-> deleted]
    ELSE IF Head(arr) \in keep
    THEN filterLoop(h, d, tr, Tail(arr), keep, deleted)
    ELSE Let(intervalDelete(h, d, tr, Head(arr)), LAMBDA r :
             filterLoop(r.h, r.d, r.tree, Tail(arr), keep,
                        Append(deleted, Head(arr))))

\* IntervalTree.filter(filterFunction)
intervalFilter(h, d, tr, keep) ==
    LET ids == filterDfs(h, tr.root)
    IN filterLoop(h, d, tr, [i \in DOMAIN ids |-> d[ids[i]].data], keep, <<>>)

\* The entries of arr that filter's loop reaches when the filter function
\* is the predicate of deleteInRange: those before the first entry on which
\* the predicate raises a RangeError.
RECURSIVE reached(_, _, _, _)
reached(arr, lower, upper, inclusive) ==
    IF arr = <<>> THEN <<>>
    ELSE IF MatchThrows(lower, upper, inclusive,
                        rangeMapper(Head(arr))[1], rangeMapper(Head(arr))[2])
    THEN <<>>
    ELSE <<Head(arr)>> \o reached(Tail(arr), lower, upper, inclusive)

\* IntervalTree.deleteInRange(lower, upper, inclusive): filter with the
\* predicate "does not match the range".  The predicate is evaluated entry
\* by entry inside filter's delete loop; when it raises a RangeError the
\* entries before it have been dealt with (thrown is TRUE).
deleteInRangeOver(h, d, tr, arr, lower, upper, inclusive) ==
    Let(filterLoop(h, d, tr, reached(arr, lower, upper, inclusive),
                   {x \in Range(arr) :
                       ~Matches(lower, upper, inclusive,
                                rangeMapper(x)[1], rangeMapper(x)[2])},
                   <<>>),
        LAMBDA r : [h |-> r.h, d |-> r.d, tree |-> r.tree, deleted |-> r.deleted,
                    thrown |-> Len(reached(arr, lower, upper, inclusive)) < Len(arr)])

intervalDeleteInRange(h, d, tr, lower, upper, inclusive) ==
    Let(filterDfs(h, tr.root), LAMBDA ids :
        deleteInRangeOver(h, d, tr, [i \in DOMAIN ids |-> d[ids[i]].data],
                          lower, upper, inclusive))

\* The dfs of rangeQuery: the data it yields, in order.
RECURSIVE queryDfs(_, _, _, _, _, _)
queryDfs(h, d, node, lower, upper, inclusive) ==
    IF node = NULL THEN <<>>
    ELSE LET v == d[h[node].value]
             left == h[node].left
         IN (IF Matches(lower, upper, inclusive, v.lowerBound, v.upperBound)
             THEN <<v.data>> ELSE <<>>)
            \o (IF left # NULL /\ d[h[left].value].maxUpperBound >= lower
                THEN queryDfs(h, d, left, lower, upper, inclusive) ELSE <<>>)
            \o queryDfs(h, d, h[node].right, lower, upper, inclusive)

\* IntervalTree.query(lower, upper, inclusive) / rangeQuery for lower <= upper.
query(h, d, tr, lower, upper, inclusive) ==
    queryDfs(h, d, tr.root, lower, upper, inclusive)

\* values(): rangeQuery(-Infinity, Infinity); every stored bound lies
\* strictly between the two ends of QueryBounds.
intervalValues(h, d, tr) == query(h, d, tr, 0, MaxUpper + 1, FALSE)

\* hasOverlap runs the dfs of rangeQuery up to its first yield: TRUE when
\* the walk of the subtree at node yields something.
RECURSIVE hasOverlapDfs(_, _, _, _, _, _)
hasOverlapDfs(h, d, node, lower, upper, inclusive) ==
    IF node = NULL THEN FALSE
    ELSE \/ Matches(lower, upper, inclusive,
                    d[h[node].value].lowerBound, d[h[node].value].upperBound)
         \/ /\ h[node].left # NULL
            /\ d[h[h[node].left].value].maxUpperBound >= lower
            /\ hasOverlapDfs(h, d, h[node].left, lower, upper, inclusive)
         \/ hasOverlapDfs(h, d, h[node].right, lower, upper, inclusive)

\* hasOverlap that does not hand `inclusive` on to rangeQuery.
hasOverlapExclusive(h, d, tr, lower, upper, inclusive) ==
    hasOverlapDfs(h, d, tr.root, lower, upper, FALSE)

\* IntervalTree.hasOverlap(lower, upper, inclusive) for lower <= upper.
hasOverlap(h, d, tr, lower, upper, inclusive) ==
    hasOverlapDfs(h, d, tr.root, lower, upper, inclusive)

\* IntervalTree.clone(): a new IntervalTree over this._tree.clone().
intervalClone(h, tr) == clone(h, tr)

\* ---------------------------------------------------- interval actions
\* The interval actions record in `last` the operation and the case of the
\* backing tree's delete; query and hasOverlap also record their arguments
\* (a tuple, empty for the other operations) and their result (the array
\* query returns, the boolean of hasOverlap in a tuple of its own, the empty
\* tuple for the other operations and for a call that raises).  The step
\* properties of the other operations name the argument by quantifying over
\* the action itself.
\* it.insert(data) of an object the caller does not hold stored; a range
\* with lower > upper raises a RangeError and nothing else happens.
IntervalInsert(t, data, bound) ==
    /\ IsIntervalTree(trees[t])
    /\ IF insertRejects(data)
       THEN /\ UNCHANGED <<nodes, itds, trees, ghost, lnodes, lists, cache, dset>>
            /\ last' = Op("insert", t, <<>>, <<>>, "RangeError")
       ELSE /\ size(trees[t]) < bound
            /\ ~InBag(ghost[t], data)
            /\ Let(intervalInsert(nodes, itds, trees[t], data), LAMBDA r :
                   Commit(r.h, r.d, [trees EXCEPT ![t] = r.tree]))
            /\ ghost' = [ghost EXCEPT ![t] = BagAdd(@, data)]
            /\ last' = Op("insert", t, <<>>, <<>>, "none")

\* it.delete(data)
IntervalDelete(t, data) ==
    /\ IsIntervalTree(trees[t])
    /\ Let(intervalDelete(nodes, itds, trees[t], data), LAMBDA r :
           /\ Commit(r.h, r.d, [trees EXCEPT ![t] = r.tree])
           /\ last' = Op("delete", t, <<>>, <<>>, r.kind))
    /\ ghost' = [ghost EXCEPT ![t] = BagRemove(@, data)]

\* it.filter(x => x in keep); the returned array is recorded.
IntervalFilter(t, keep) ==
    /\ IsIntervalTree(trees[t])
    /\ Let(intervalFilter(nodes, itds, trees[t], keep), LAMBDA r :
           Commit(r.h, r.d, [trees EXCEPT ![t] = r.tree]))
    /\ ghost' = [ghost EXCEPT ![t] = {p \in @ : p[1] \in keep}]
    /\ last' = Op("filter", t, <<>>, <<>>, "none")

\* it.deleteInRange(lower, upper, inclusive); the entries the caller holds
\* stored afterwards are those outside a valid range, and all of them when
\* the range is not valid.
IntervalDeleteInRange(t, lower, upper, inclusive) ==
    /\ IsIntervalTree(trees[t])
    /\ Let(intervalDeleteInRange(nodes, itds, trees[t], lower, upper, inclusive),
           LAMBDA r :
               /\ Commit(r.h, r.d, [trees EXCEPT ![t] = r.tree])
               /\ last' = Op("deleteInRange", t, <<>>, <<>>,
                             IF r.thrown THEN "RangeError" ELSE "none"))
    /\ ghost' = [ghost EXCEPT ![t] =
          IF lower > upper THEN @
          ELSE {p \in @ : ~Matches(lower, upper, inclusive,
                                   rangeMapper(p[1])[1], rangeMapper(p[1])[2])}]

\* it.query(lower, upper, inclusive): the tree is left alone and the
\* returned array is recorded; lower > upper raises a RangeError.
IntervalQuery(t, lower, upper, inclusive) ==
    /\ IsIntervalTree(trees[t])
    /\ UNCHANGED <<nodes, itds, trees, ghost, lnodes, lists, cache, dset>>
    /\ last' = IF lower > upper
               THEN Op("query", t, <<lower, upper, inclusive>>, <<>>, "RangeError")
               ELSE Op("query", t, <<lower, upper, inclusive>>,
                       query(nodes, itds, trees[t], lower, upper, inclusive), "none")

\* it.hasOverlap(lower, upper, inclusive): the tree is left alone and the
\* returned boolean is recorded; lower > upper raises a RangeError.
IntervalHasOverlap(t, lower, upper, inclusive) ==
    /\ IsIntervalTree(trees[t])
    /\ UNCHANGED <<nodes, itds, trees, ghost, lnodes, lists, cache, dset>>
    /\ last' = IF lower > upper
               THEN Op("hasOverlap", t, <<lower, upper, inclusive>>, <<>>, "RangeError")
               ELSE Op("hasOverlap", t, <<lower, upper, inclusive>>,
                       <<hasOverlap(nodes, itds, trees[t], lower, upper, inclusive)>>,
                       "none")

\* it.clear()
IntervalClear(t) ==
    /\ IsIntervalTree(trees[t])
    /\ Commit(nodes, itds, [trees EXCEPT ![t] = clear(@)])
    /\ ghost' = [ghost EXCEPT ![t] = {}]
    /\ last' = Op("clear", t, <<>>, <<>>, "none")

\* it.clone(): the model holds the original and one clone of it.
IntervalClone(t) ==
    /\ IsIntervalTree(trees[t])
    /\ Len(trees) = 1
    /\ Let(intervalClone(nodes, trees[t]), LAMBDA r :
           Commit(r.h, itds, Append(trees, r.tree)))
    /\ ghost' = Append(ghost, ghost[t])
    /\ last' = Op("clone", t, <<>>, <<>>, "none")

\* The data stored in tree t (the nodes reachable from its root).
StoredData(t) ==
    LET ids == toArray(nodes, trees[t].root)
    IN {itds[ids[i]].data : i \in DOMAIN ids}

\* new IntervalTree(rangeMapper)
InitInterval ==
    /\ nodes = <<>>
    /\ itds = <<>>
    /\ trees = <<EmptyTree("BinarySearchTree", "lowerBound")>>
    /\ ghost = <<{}>>
    /\ last = Op("new", 1, <<>>, <<>>, "none")
    /\ ops = 0
    /\ lnodes = <<>>
    /\ lists = <<>>
    /\ cache = NoCache
    /\ dset = NoSets

NextInterval ==
    \/ \E data \in DataUniverse :
          IntervalInsert(1, data, MaxEntries) /\ UNCHANGED ops
    \/ \E data \in DataUniverse : IntervalDelete(1, data) /\ UNCHANGED ops
    \/ \E keep \in SUBSET StoredData(1) : IntervalFilter(1, keep) /\ UNCHANGED ops
    \/ \E lower, upper \in RangeBounds, inclusive \in BOOLEAN :
          /\ lower <= upper
          /\ IntervalDeleteInRange(1, lower, upper, inclusive)
          /\ UNCHANGED ops
    \/ IntervalClear(1) /\ UNCHANGED ops

SpecInterval == InitInterval /\ [][NextInterval]_vars

\* An IntervalTree is filled, cloned, and then MaxCloneOps calls are made on
\* the original or on the clone.  The data objects are the first twins.
CloneUniverse == {data \in DataUniverse : data.id = 1}

Spend == Len(trees) = 2 /\ ops < MaxCloneOps /\ ops' = ops + 1

NextIntervalClone ==
    \/ \E data \in CloneUniverse :
          /\ Len(trees) = 1
          /\ IntervalInsert(1, data, MaxCloneEntries)
          /\ UNCHANGED ops
    \/ IntervalClone(1) /\ UNCHANGED ops
    \/ \E t \in DOMAIN trees, data \in CloneUniverse :
          Spend /\ IntervalInsert(t, data, MaxCloneEntries)
    \/ \E t \in DOMAIN trees, data \in CloneUniverse :
          Spend /\ IntervalDelete(t, data)
    \/ \E t \in DOMAIN trees : \E keep \in SUBSET StoredData(t) :
          Spend /\ IntervalFilter(t, keep)
    \/ \E t \in DOMAIN trees, lower, upper \in RangeBounds, inclusive \in BOOLEAN :
          /\ lower <= upper
          /\ Spend
          /\ IntervalDeleteInRange(t, lower, upper, inclusive)

SpecIntervalClone == InitInterval /\ [][NextIntervalClone]_vars

\* A tree is built by inserts and deletes of the first twins, and then one
\* range-taking operation is called on it, also with lower > upper.
Building == ops = 0 /\ UNCHANGED ops

Calling == ops = 0 /\ ops' = ops + 1

NextRange ==
    \/ \E data \in CloneUniverse :
          Building /\ IntervalInsert(1, data, MaxRangeEntries)
    \/ \E data \in CloneUniverse : Building /\ IntervalDelete(1, data)
    \/ \E lower, upper \in RangeBounds, inclusive \in BOOLEAN :
          Calling /\ IntervalQuery(1, lower, upper, inclusive)
    \/ \E lower, upper \in RangeBounds, inclusive \in BOOLEAN :
          Calling /\ IntervalHasOverlap(1, lower, upper, inclusive)
    \/ \E lower, upper \in RangeBounds, inclusive \in BOOLEAN :
          Calling /\ IntervalDeleteInRange(1, lower, upper, inclusive)

SpecRange == InitInterval /\ [][NextRange]_vars

\* ----------------------------------------------------- the sample tree
\* The six objects of the test suite, A to F in this order; the rangeMapper
\* reads the interval off the object.
SampleData ==
    << [id |-> 1, lower |-> 1,  upper |-> 5],
       [id |-> 2, lower |-> 10, upper |-> 15],
       [id |-> 3, lower |-> 20, upper |-> 25],
       [id |-> 4, lower |-> 12, upper |-> 18],
       [id |-> 5, lower |-> 30, upper |-> 35],
       [id |-> 6, lower |-> 5,  upper |-> 10] >>

\* The bounds of the queries made on the sample tree: the ends of F.
SamplePoints == {SampleData[6].lower, SampleData[6].upper}

\* The sample objects are inserted, in any order, and the tree is queried.
NextSample ==
    \/ \E i \in DOMAIN SampleData :
          IntervalInsert(1, SampleData[i], Len(SampleData)) /\ UNCHANGED ops
    \/ \E lower, upper \in SamplePoints, inclusive \in BOOLEAN :
          IntervalQuery(1, lower, upper, inclusive) /\ UNCHANGED ops

SpecSample == InitInterval /\ [][NextSample]_vars

\* ------------------------------------------------ equal lower bounds
\* The valid objects whose lower bound is the largest one, and the first
\* twins: many of them share a lower bound.
TieUniverse ==
    {data \in DataUniverse :
        data.lower <= data.upper /\ (data.lower = MaxLower \/ data.id = 1)}

\* A tree is filled with up to MaxTieEntries of these objects, and then up
\* to MaxTieDeletes of them are deleted.
NextTies ==
    \/ \E data \in TieUniverse :
          /\ ops = 0
          /\ IntervalInsert(1, data, MaxTieEntries)
          /\ UNCHANGED ops
    \/ \E data \in TieUniverse :
          /\ ops < MaxTieDeletes
          /\ IntervalDelete(1, data)
          /\ ops' = ops + 1

SpecTies == InitInterval /\ [][NextTies]_vars

\* ------------------------------------------------- clear on every class
\* One tree of one of the three classes (an AVLTree, a BinarySearchTree or
\* an IntervalTree) is filled and emptied by inserts and deletes, and
\* cleared in any of the states reached.
InitClear == Init \/ InitInterval

NextClear ==
    \/ \E v \in Values : Insert(1, v, MaxClearNodes) /\ UNCHANGED ops
    \/ \E v \in Values : Delete(1, v) /\ UNCHANGED ops
    \/ Clear(1) /\ UNCHANGED ops
    \/ \E data \in CloneUniverse :
          IntervalInsert(1, data, MaxClearNodes) /\ UNCHANGED ops
    \/ \E data \in CloneUniverse : IntervalDelete(1, data) /\ UNCHANGED ops
    \/ IntervalClear(1) /\ UNCHANGED ops

SpecClear == InitClear /\ [][NextClear]_vars

\* ========================================================= LinkedList
\* new ListNode(value): _next, _prev undefined, _isDisposed false.
NewListNode(value) ==
    [value |-> value, next |-> NULL, prev |-> NULL, isDisposed |-> FALSE]

setNext(h, n, next) == [h EXCEPT ![n].next = next]

setPrev(h, n, prev) == [h EXCEPT ![n].prev = prev]

\* dispose() that drops the links and leaves _isDisposed as it is.
disposeUnflagged(h, n) == [h EXCEPT ![n].prev = NULL, ![n].next = NULL]

\* dispose(): _isDisposed = true, _prev = _next = undefined.
dispose(h, n) ==
    [h EXCEPT ![n].isDisposed = TRUE, ![n].prev = NULL, ![n].next = NULL]

\* new LinkedList()
EmptyList == [head |-> NULL, tail |-> NULL, size |-> 0]

\* The values a caller stores; deleteNode never reads them.
ListValues == {"v"}

\* values(): the nodes from the head along the next links.  A list of the
\* model never holds more nodes than the heap, which bounds the walk.
RECURSIVE valuesFrom(_, _, _)
valuesFrom(h, current, fuel) ==
    IF current = NULL \/ fuel = 0 THEN <<>>
    ELSE <<current>> \o valuesFrom(h, h[current].next, fuel - 1)

values(h, ls) == valuesFrom(h, ls.head, Len(h))

\* append(value): heap, list object and the new node.
append(h, ls, value) ==
    LET newNode == Len(h) + 1
        h0 == Append(h, NewListNode(value))
    IN IF ls.head = NULL
       THEN [h |-> h0,
             list |-> [head |-> newNode, tail |-> newNode, size |-> ls.size + 1],
             node |-> newNode]
       ELSE [h |-> setPrev(setNext(h0, ls.tail, newNode), newNode, ls.tail),
             list |-> [ls EXCEPT !.tail = newNode, !.size = ls.size + 1],
             node |-> newNode]

\* insertAfter that leaves the prev link of the node behind the new one
\* pointing at afterNode.
insertAfterNoBackLink(h, ls, afterNode, value) ==
    LET newNode == Len(h) + 1
        h0 == Append(h, NewListNode(value))
        h1 == setPrev(setNext(h0, newNode, h[afterNode].next), newNode, afterNode)
        afterNodeNext == h[afterNode].next
    IN [h |-> setNext(h1, afterNode, newNode),
        list |-> [ls EXCEPT !.tail = IF afterNodeNext # NULL THEN ls.tail ELSE newNode,
                            !.size = ls.size + 1],
        node |-> newNode]

\* insertAfter(afterNode, value)
insertAfter(h, ls, afterNode, value) ==
    LET newNode == Len(h) + 1
        h0 == Append(h, NewListNode(value))
        h1 == setPrev(setNext(h0, newNode, h[afterNode].next), newNode, afterNode)
        afterNodeNext == h[afterNode].next
        h2 == IF afterNodeNext # NULL THEN setPrev(h1, afterNodeNext, newNode) ELSE h1
    IN [h |-> setNext(h2, afterNode, newNode),
        list |-> [ls EXCEPT !.tail = IF afterNodeNext # NULL THEN ls.tail ELSE newNode,
                            !.size = ls.size + 1],
        node |-> newNode]

\* insertBefore(beforeNode, value)
insertBefore(h, ls, beforeNode, value) ==
    LET newNode == Len(h) + 1
        h0 == Append(h, NewListNode(value))
    IN IF ls.head = beforeNode
       THEN [h |-> setPrev(setNext(h0, newNode, ls.head), ls.head, newNode),
             list |-> [ls EXCEPT !.head = newNode, !.size = ls.size + 1],
             node |-> newNode]
       ELSE LET prevNode == h[beforeNode].prev
                h1 == IF prevNode # NULL
                      THEN setPrev(setNext(h0, prevNode, newNode), newNode, prevNode)
                      ELSE h0
            IN [h |-> setPrev(setNext(h1, newNode, beforeNode), beforeNode, newNode),
                list |-> [ls EXCEPT !.size = ls.size + 1],
                node |-> newNode]

\* prepend(value)
prepend(h, ls, value) ==
    IF ls.head # NULL THEN insertBefore(h, ls, ls.head, value)
    ELSE append(h, ls, value)

\* deleteNode(node): heap, list object and the returned boolean.
deleteNode(h, ls, node) ==
    IF ls.head = NULL THEN [h |-> h, list |-> ls, ret |-> FALSE]
    ELSE IF h[node].isDisposed THEN [h |-> h, list |-> ls, ret |-> FALSE]
    ELSE IF ls.head = node
    THEN LET head == h[ls.head].next
         IN [h |-> dispose(IF head # NULL THEN setPrev(h, head, NULL) ELSE h, node),
             list |-> [head |-> head,
                       tail |-> IF head # NULL THEN ls.tail ELSE NULL,
                       size |-> ls.size - 1],
             ret |-> TRUE]
    ELSE IF ls.tail = node
    THEN LET tail == h[ls.tail].prev
         IN [h |-> dispose(IF tail # NULL THEN setNext(h, tail, NULL) ELSE h, node),
             list |-> [head |-> IF tail # NULL THEN ls.head ELSE NULL,
                       tail |-> tail,
                       size |-> ls.size - 1],
             ret |-> TRUE]
    ELSE LET next == h[node].next
             prev == h[node].prev
         IN IF /\ next # NULL
               /\ prev # NULL
               /\ h[prev].next = node
               /\ h[next].prev = node
            THEN [h |-> dispose(setNext(setPrev(h, next, h[node].prev),
                                        prev, h[node].next), node),
                  list |-> [ls EXCEPT !.size = ls.size - 1],
                  ret |-> TRUE]
            ELSE [h |-> h, list |-> ls, ret |-> FALSE]

\* ------------------------------------------------------- list actions
\* The list actions record in `last` the operation, the list, the node
\* handed in (NULL when none) and the boolean deleteNode returns (FALSE for
\* the other operations).  The trees play no part.
TreesIdle == UNCHANGED <<nodes, itds, trees, ghost, ops, cache, dset>>

ListCommit(l, r) ==
    /\ lnodes' = r.h
    /\ lists' = [lists EXCEPT ![l] = r.list]

\* new ListNode(value), made by the caller and put in no list.
CreateNode(value) ==
    /\ Len(lnodes) < MaxListNodes
    /\ lnodes' = Append(lnodes, NewListNode(value))
    /\ UNCHANGED lists
    /\ last' = Op("new ListNode", 1, NULL, FALSE, "none")
    /\ TreesIdle

\* list.append(value)
ListAppend(l, value) ==
    /\ Len(lnodes) < MaxListNodes
    /\ ListCommit(l, append(lnodes, lists[l], value))
    /\ last' = Op("append", l, NULL, FALSE, "none")
    /\ TreesIdle

\* list.prepend(value)
ListPrepend(l, value) ==
    /\ Len(lnodes) < MaxListNodes
    /\ ListCommit(l, prepend(lnodes, lists[l], value))
    /\ last' = Op("prepend", l, NULL, FALSE, "none")
    /\ TreesIdle

\* list.insertAfter(afterNode, value), afterNode a node of the list.
ListInsertAfter(l, afterNode, value) ==
    /\ Len(lnodes) < MaxListNodes
    /\ afterNode \in Range(values(lnodes, lists[l]))
    /\ ListCommit(l, insertAfter(lnodes, lists[l], afterNode, value))
    /\ last' = Op("insertAfter", l, afterNode, FALSE, "none")
    /\ TreesIdle

\* list.insertBefore(beforeNode, value), beforeNode a node of the list.
ListInsertBefore(l, beforeNode, value) ==
    /\ Len(lnodes) < MaxListNodes
    /\ beforeNode \in Range(values(lnodes, lists[l]))
    /\ ListCommit(l, insertBefore(lnodes, lists[l], beforeNode, value))
    /\ last' = Op("insertBefore", l, beforeNode, FALSE, "none")
    /\ TreesIdle

\* list.deleteNode(node), node any ListNode the caller holds.
ListDeleteNode(l, node) ==
    /\ ListCommit(l, deleteNode(lnodes, lists[l], node))
    /\ last' = Op("deleteNode", l, node, deleteNode(lnodes, lists[l], node).ret, "none")
    /\ TreesIdle

\* Two lists and the nodes their callers hold.
InitList ==
    /\ nodes = <<>>
    /\ itds = <<>>
    /\ trees = <<>>
    /\ ghost = <<>>
    /\ last = Op("new", 1, NULL, FALSE, "none")
    /\ ops = 0
    /\ lnodes = <<>>
    /\ lists = <<EmptyList, EmptyList>>
    /\ cache = NoCache
    /\ dset = NoSets

NextList ==
    \/ \E value \in ListValues : CreateNode(value)
    \/ \E l \in DOMAIN lists, value \in ListValues : ListAppend(l, value)
    \/ \E l \in DOMAIN lists, value \in ListValues : ListPrepend(l, value)
    \/ \E l \in DOMAIN lists, node \in DOMAIN lnodes, value \in ListValues :
          ListInsertAfter(l, node, value)
    \/ \E l \in DOMAIN lists, node \in DOMAIN lnodes, value \in ListValues :
          ListInsertBefore(l, node, value)
    \/ \E l \in DOMAIN lists, node \in DOMAIN lnodes : ListDeleteNode(l, node)

SpecList == InitList /\ [][NextList]_vars

\* Two lists whose callers hand in only nodes that are in the list the
\* call is made on.
NextListOwn ==
    \/ \E l \in DOMAIN lists, value \in ListValues : ListAppend(l, value)
    \/ \E l \in DOMAIN lists, value \in ListValues : ListPrepend(l, value)
    \/ \E l \in DOMAIN lists, node \in DOMAIN lnodes, value \in ListValues :
          ListInsertAfter(l, node, value)
    \/ \E l \in DOMAIN lists, node \in DOMAIN lnodes, value \in ListValues :
          ListInsertBefore(l, node, value)
    \/ \E l \in DOMAIN lists, node \in DOMAIN lnodes :
          /\ node \in Range(values(lnodes, lists[l]))
          /\ ListDeleteNode(l, node)

SpecListOwn == InitList /\ [][NextListOwn]_vars

\* ------------------------------------------- lists an object owns
\* LinkedList.clear(): _head = _tail = undefined, _size = 0; the nodes are
\* left as they are.
clearList(ls) == [ls EXCEPT !.head = NULL, !.tail = NULL, !.size = 0]

\* The list nodes reachable from the nodes S along next and prev.
RECURSIVE ListReach(_, _)
ListReach(h, S) ==
    Let((S \cup {h[n].next : n \in S} \cup {h[n].prev : n \in S}) \ {NULL},
        LAMBDA T : IF T = S THEN S ELSE ListReach(h, T))

RECURSIVE Ascending(_)
Ascending(S) ==
    IF S = {} THEN <<>>
    ELSE Let(CHOOSE x \in S : \A y \in S : x <= y,
             LAMBDA m : <<m>> \o Ascending(S \ {m}))

RECURSIVE Walks(_, _, _)
Walks(h, lss, i) ==
    IF i > Len(lss) THEN <<>> ELSE values(h, lss[i]) \o Walks(h, lss, i + 1)

\* The list nodes the objects still refer to: those of the lists lss in
\* the order of the lists, then the others reachable from the heads, the
\* tails and the nodes in `held`.
ListOrder(h, lss, held) ==
    Let(Distinct(Walks(h, lss, 1), <<>>), LAMBDA walked :
        walked \o Ascending(ListReach(h, (held \cup {lss[i].head : i \in DOMAIN lss}
                                                \cup {lss[i].tail : i \in DOMAIN lss})
                                               \ {NULL})
                            \ Range(walked)))

\* The list heap and the list objects after collection, renamed by order.
ListHeap(h, order) ==
    [i \in DOMAIN order |->
        [h[order[i]] EXCEPT !.next = IndexOf(order, h[order[i]].next),
                            !.prev = IndexOf(order, h[order[i]].prev)]]

ListObjects(lss, order) ==
    [i \in DOMAIN lss |->
        [lss[i] EXCEPT !.head = IndexOf(order, lss[i].head),
                       !.tail = IndexOf(order, lss[i].tail)]]

\* =========================================================== LRUCache
\* The cache object: _capacity and _cache, the Map from a key to the pair
\* [value, node]; its _list is lists[1], whose nodes hold <<key, value>>.
NewCache(capacity) == [capacity |-> capacity, map |-> <<>>]

MapSet(m, key, entry) ==
    [k \in DOMAIN m \cup {key} |-> IF k = key THEN entry ELSE m[k]]

MapDelete(m, key) == [k \in DOMAIN m \ {key} |-> m[k]]

\* _reenqueue that leaves the node where it is in the list.
reenqueueInPlace(h, ls, m, key) == [h |-> h, list |-> ls, map |-> m]

\* _reenqueue(key, cache): the node leaves the list and a new node with the
\* cached value is appended.
reenqueue(h, ls, m, key) ==
    Let(deleteNode(h, ls, m[key].node), LAMBDA d :
        Let(append(d.h, d.list, <<key, m[key].value>>), LAMBDA a :
            [h |-> a.h, list |-> a.list,
             map |-> [m EXCEPT ![key].node = a.node]]))

\* get(key): heap, list, cache and the returned value (NULL = undefined).
lruGet(h, ls, c, key) ==
    IF key \notin DOMAIN c.map
    THEN [h |-> h, list |-> ls, cache |-> c, ret |-> NULL, kind |-> "miss"]
    ELSE Let(reenqueue(h, ls, c.map, key), LAMBDA r :
             [h |-> r.h, list |-> r.list, cache |-> [c EXCEPT !.map = r.map],
              ret |-> c.map[key].value, kind |-> "hit"])

\* set(key, value); kind names the branch: "update", "evict" (the head of
\* the list left the cache first) or "add".
lruSet(h, ls, c, key, value) ==
    IF key \in DOMAIN c.map
    THEN Let(reenqueue(h, ls, [c.map EXCEPT ![key].value = value], key), LAMBDA r :
             [h |-> r.h, list |-> r.list, cache |-> [c EXCEPT !.map = r.map],
              ret |-> NULL, kind |-> "update"])
    ELSE Let(IF ls.size >= c.capacity
             THEN Let(deleteNode(h, ls, ls.head), LAMBDA d :
                      [h |-> d.h, list |-> d.list,
                       map |-> MapDelete(c.map, h[ls.head].value[1]),
                       kind |-> "evict"])
             ELSE [h |-> h, list |-> ls, map |-> c.map, kind |-> "add"],
             LAMBDA e :
             Let(append(e.h, e.list, <<key, value>>), LAMBDA a :
                 [h |-> a.h, list |-> a.list,
                  cache |-> [c EXCEPT !.map =
                                MapSet(e.map, key, [value |-> value, node |-> a.node])],
                  ret |-> NULL, kind |-> e.kind]))

\* delete(key): heap, list, cache and the returned boolean as "hit"/"miss".
lruDelete(h, ls, c, key) ==
    IF key \notin DOMAIN c.map
    THEN [h |-> h, list |-> ls, cache |-> c, ret |-> NULL, kind |-> "miss"]
    ELSE Let(deleteNode(h, ls, c.map[key].node), LAMBDA d :
             [h |-> d.h, list |-> d.list,
              cache |-> [c EXCEPT !.map = MapDelete(c.map, key)],
              ret |-> NULL, kind |-> "hit"])

\* clear()
lruClear(h, ls, c) ==
    [h |-> h, list |-> clearList(ls), cache |-> [c EXCEPT !.map = <<>>],
     ret |-> NULL, kind |-> "none"]

\* size(): this._cache.size
lruSize(c) == Cardinality(DOMAIN c.map)

\* ------------------------------------------------------ cache actions
LruKeys == 1..MaxLruKey

LruValues == 1..MaxLruVal

\* What the calls made so far should have left in the cache: the pairs
\* <<key, value>>, the least recently used first.
GhostKeys(g) == {g[i][1] : i \in DOMAIN g}

GhostValue(g, key) ==
    IF key \in GhostKeys(g) THEN g[CHOOSE i \in DOMAIN g : g[i][1] = key][2] ELSE NULL

GhostWithout(g, key) == SelectSeq(g, LAMBDA p : p[1] # key)

GhostUse(g, key, value) == Append(GhostWithout(g, key), <<key, value>>)

LruCommit(r) ==
    Let(ListOrder(r.h, <<r.list>>, {r.cache.map[k].node : k \in DOMAIN r.cache.map}),
        LAMBDA order :
        /\ lnodes' = ListHeap(r.h, order)
        /\ lists' = ListObjects(<<r.list>>, order)
        /\ cache' = [r.cache EXCEPT !.map =
                        [k \in DOMAIN r.cache.map |->
                            [r.cache.map[k] EXCEPT !.node = IndexOf(order, @)]]])

LruIdle == UNCHANGED <<nodes, itds, trees, ops, dset>>

\* cache.get(key)
LruGet(key) ==
    /\ Let(lruGet(lnodes, lists[1], cache, key), LAMBDA r :
           /\ LruCommit(r)
           /\ last' = Op("get", 1, key, r.ret, r.kind))
    /\ ghost' = IF key \in GhostKeys(ghost)
                THEN GhostUse(ghost, key, GhostValue(ghost, key)) ELSE ghost
    /\ LruIdle

\* cache.set(key, value)
LruSet(key, value) ==
    /\ Let(lruSet(lnodes, lists[1], cache, key, value), LAMBDA r :
           /\ LruCommit(r)
           /\ last' = Op("set", 1, key, value, r.kind))
    /\ ghost' = IF key \notin GhostKeys(ghost) /\ lruSize(cache) = cache.capacity
                THEN Append(Tail(ghost), <<key, value>>)
                ELSE GhostUse(ghost, key, value)
    /\ LruIdle

\* cache.delete(key)
LruDelete(key) ==
    /\ Let(lruDelete(lnodes, lists[1], cache, key), LAMBDA r :
           /\ LruCommit(r)
           /\ last' = Op("delete", 1, key, NULL, r.kind))
    /\ ghost' = GhostWithout(ghost, key)
    /\ LruIdle

\* cache.clear()
LruClear ==
    /\ Let(lruClear(lnodes, lists[1], cache), LAMBDA r :
           /\ LruCommit(r)
           /\ last' = Op("clear", 1, NULL, NULL, r.kind))
    /\ ghost' = <<>>
    /\ LruIdle

\* new LRUCache(capacity), capacity >= 1.
InitLru ==
    /\ nodes = <<>>
    /\ itds = <<>>
    /\ trees = <<>>
    /\ ghost = <<>>
    /\ last = Op("new", 1, NULL, NULL, "none")
    /\ ops = 0
    /\ lnodes = <<>>
    /\ lists = <<EmptyList>>
    /\ \E capacity \in 1..MaxCapacity : cache = NewCache(capacity)
    /\ dset = NoSets

NextLru ==
    \/ \E key \in LruKeys : LruGet(key)
    \/ \E key \in LruKeys, value \in LruValues : LruSet(key, value)
    \/ \E key \in LruKeys : LruDelete(key)
    \/ LruClear

SpecLru == InitLru /\ [][NextLru]_vars

\* ===================================================== Queue and Deque
\* A Queue and a Deque each own a LinkedList: lists[1] is the _list of the
\* Queue, lists[2] that of the Deque.  The Deque extends the Queue.
\* enqueue(value): this._list.append(value)
enqueue(h, ls, value) ==
    Let(append(h, ls, value), LAMBDA a : [h |-> a.h, list |-> a.list, ret |-> NULL])

\* dequeue(): the value of the head, read after the node left the list;
\* NULL (undefined) on an empty queue.
dequeue(h, ls) ==
    IF ls.head # NULL
    THEN Let(deleteNode(h, ls, ls.head), LAMBDA d :
             [h |-> d.h, list |-> d.list, ret |-> d.h[ls.head].value])
    ELSE [h |-> h, list |-> ls, ret |-> NULL]

\* enqueueFront that adds at the back.
enqueueFrontAtBack(h, ls, value) ==
    Let(append(h, ls, value), LAMBDA a : [h |-> a.h, list |-> a.list, ret |-> NULL])

\* enqueueFront(value): this._list.prepend(value)
enqueueFront(h, ls, value) ==
    Let(prepend(h, ls, value), LAMBDA a : [h |-> a.h, list |-> a.list, ret |-> NULL])

\* dequeueBack(): the value of the tail, read before the node leaves.
dequeueBack(h, ls) ==
    IF ls.tail # NULL
    THEN Let(deleteNode(h, ls, ls.tail), LAMBDA d :
             [h |-> d.h, list |-> d.list, ret |-> h[ls.tail].value])
    ELSE [h |-> h, list |-> ls, ret |-> NULL]

\* toArray(): [...this.values()], the values from the head along next.
queueToArray(h, ls) == NodeValues(h, values(h, ls))

\* size(): this._list.size()
queueSize(ls) == ls.size

\* -------------------------------------------------------- queue actions
QueueValues == 1..MaxQueueVal

IsDeque(q) == q = 2

QueueCommit(q, r) ==
    Let([lists EXCEPT ![q] = r.list], LAMBDA lss :
        Let(ListOrder(r.h, lss, {}), LAMBDA order :
            /\ lnodes' = ListHeap(r.h, order)
            /\ lists' = ListObjects(lss, order)))

QueueIdle == UNCHANGED <<nodes, itds, trees, ops, cache, dset>>

\* queue.enqueue(value); ghost holds, per object, the elements the calls
\* made so far should have left, front to back.
Enqueue(q, value) ==
    /\ queueSize(lists[q]) < MaxQueueLen
    /\ QueueCommit(q, enqueue(lnodes, lists[q], value))
    /\ ghost' = [ghost EXCEPT ![q] = Append(@, value)]
    /\ last' = Op("enqueue", q, value, NULL, "none")
    /\ QueueIdle

\* queue.dequeue()
Dequeue(q) ==
    /\ Let(dequeue(lnodes, lists[q]), LAMBDA r :
           /\ QueueCommit(q, r)
           /\ last' = Op("dequeue", q, NULL, r.ret, "none"))
    /\ ghost' = [ghost EXCEPT ![q] = IF @ = <<>> THEN @ ELSE Tail(@)]
    /\ QueueIdle

\* deque.enqueueFront(value)
EnqueueFront(q, value) ==
    /\ IsDeque(q)
    /\ queueSize(lists[q]) < MaxQueueLen
    /\ QueueCommit(q, enqueueFront(lnodes, lists[q], value))
    /\ ghost' = [ghost EXCEPT ![q] = <<value>> \o @]
    /\ last' = Op("enqueueFront", q, value, NULL, "none")
    /\ QueueIdle

\* deque.dequeueBack()
DequeueBack(q) ==
    /\ IsDeque(q)
    /\ Let(dequeueBack(lnodes, lists[q]), LAMBDA r :
           /\ QueueCommit(q, r)
           /\ last' = Op("dequeueBack", q, NULL, r.ret, "none"))
    /\ ghost' = [ghost EXCEPT ![q] = IF @ = <<>> THEN @ ELSE SubSeq(@, 1, Len(@) - 1)]
    /\ QueueIdle

\* new Queue() and new Deque()
InitQueue ==
    /\ nodes = <<>>
    /\ itds = <<>>
    /\ trees = <<>>
    /\ ghost = <<<<>>, <<>>>>
    /\ last = Op("new", 1, NULL, NULL, "none")
    /\ ops = 0
    /\ lnodes = <<>>
    /\ lists = <<EmptyList, EmptyList>>
    /\ cache = NoCache
    /\ dset = NoSets

NextQueue ==
    \/ \E q \in DOMAIN lists, value \in QueueValues : Enqueue(q, value)
    \/ \E q \in DOMAIN lists : Dequeue(q)
    \/ \E q \in DOMAIN lists, value \in QueueValues : EnqueueFront(q, value)
    \/ \E q \in DOMAIN lists : DequeueBack(q)

SpecQueue == InitQueue /\ [][NextQueue]_vars

\* ========================================================= DisjointSet
\* The nodes are numbers (DisjointSet<T = number>), 0 among them.  A Map
\* is a function on the keys it holds; Undefined is what Map.get gives for
\* a key it does not hold and what `return;` gives.
Undefined == -1

DsNodes == 0..MaxDsNode

\* !x of JavaScript on a number or undefined.
Falsy(x) == x = Undefined \/ x = 0

MapGet(m, key) == IF key \in DOMAIN m THEN m[key] ELSE Undefined

\* add(node): the set and the returned boolean.
dsAdd(ds, node) ==
    IF node \in DOMAIN ds.parent THEN [ds |-> ds, ret |-> FALSE]
    ELSE [ds |-> [parent |-> MapSet(ds.parent, node, node),
                  rank |-> MapSet(ds.rank, node, 0)],
          ret |-> TRUE]

\* find(node): the set (paths are compressed) and the returned node.
RECURSIVE dsFind(_, _)
dsFind(ds, node) ==
    Let(MapGet(ds.parent, node), LAMBDA parent :
        IF Falsy(parent) THEN [ds |-> ds, ret |-> Undefined]
        ELSE IF parent = node THEN [ds |-> ds, ret |-> node]
        ELSE Let(dsFind(ds, parent), LAMBDA r :
                 IF Falsy(r.ret) THEN [ds |-> r.ds, ret |-> parent]
                 ELSE [ds |-> [r.ds EXCEPT !.parent = MapSet(@, node, r.ret)],
                       ret |-> r.ret]))

\* findOrAdd(node)
dsFindOrAdd(ds, node) ==
    Let(dsFind(ds, node), LAMBDA r :
        IF Falsy(r.ret) THEN [ds |-> dsAdd(r.ds, node).ds, ret |-> node]
        ELSE r)

\* this._rankMap.get(parent) ?? 0
RankOf(ds, node) == IF node \in DOMAIN ds.rank THEN ds.rank[node] ELSE 0

\* union(nodeA, nodeB): the set and the returned boolean.
dsUnion(ds, nodeA, nodeB) ==
    Let(dsFindOrAdd(ds, nodeA), LAMBDA a :
        Let(dsFindOrAdd(a.ds, nodeB), LAMBDA b :
            LET parentA == a.ret
                parentB == b.ret
                rankA == RankOf(b.ds, parentA)
                rankB == RankOf(b.ds, parentB)
            IN IF parentA = parentB THEN [ds |-> b.ds, ret |-> FALSE]
               ELSE IF rankA = rankB
               THEN [ds |-> [parent |-> MapSet(b.ds.parent, parentA, parentB),
                             rank |-> MapSet(b.ds.rank, parentB, rankB + 1)],
                     ret |-> TRUE]
               ELSE IF rankA > rankB
               THEN [ds |-> [b.ds EXCEPT !.parent = MapSet(@, parentB, parentA)],
                     ret |-> TRUE]
               ELSE [ds |-> [b.ds EXCEPT !.parent = MapSet(@, parentA, parentB)],
                     ret |-> TRUE]))

\* ------------------------------------------------- disjoint-set actions
\* ghost is the partition the calls made so far define: a block per node
\* added, two blocks merged by each union of their nodes.
GhostAdded(g) == UNION g

GhostBlock(g, x) == CHOOSE B \in g : x \in B

GhostAdd(g, x) == IF x \in GhostAdded(g) THEN g ELSE g \cup {{x}}

GhostMerge(g, a, b) ==
    Let(GhostAdd(GhostAdd(g, a), b), LAMBDA g2 :
        (g2 \ {GhostBlock(g2, a), GhostBlock(g2, b)})
            \cup {GhostBlock(g2, a) \cup GhostBlock(g2, b)})

DsIdle == UNCHANGED <<nodes, itds, trees, ops, lnodes, lists, cache>>

\* The boolean a call returned, as last.kind.
Bool(b) == IF b THEN "true" ELSE "false"

\* ds.add(node)
DsAdd(node) ==
    /\ Let(dsAdd(dset, node), LAMBDA r :
           /\ dset' = r.ds
           /\ last' = Op("add", 1, node, Undefined, Bool(r.ret)))
    /\ ghost' = GhostAdd(ghost, node)
    /\ DsIdle

\* ds.find(node)
DsFind(node) ==
    /\ Let(dsFind(dset, node), LAMBDA r :
           /\ dset' = r.ds
           /\ last' = Op("find", 1, node, r.ret, "none"))
    /\ UNCHANGED ghost
    /\ DsIdle

\* ds.findOrAdd(node)
DsFindOrAdd(node) ==
    /\ Let(dsFindOrAdd(dset, node), LAMBDA r :
           /\ dset' = r.ds
           /\ last' = Op("findOrAdd", 1, node, r.ret, "none"))
    /\ ghost' = GhostAdd(ghost, node)
    /\ DsIdle

\* ds.union(nodeA, nodeB); last.arg is nodeA.
DsUnion(nodeA, nodeB) ==
    /\ Let(dsUnion(dset, nodeA, nodeB), LAMBDA r :
           /\ dset' = r.ds
           /\ last' = Op("union", 1, nodeA, Undefined, Bool(r.ret)))
    /\ ghost' = GhostMerge(ghost, nodeA, nodeB)
    /\ DsIdle

\* new DisjointSet()
InitSets ==
    /\ nodes = <<>>
    /\ itds = <<>>
    /\ trees = <<>>
    /\ ghost = {}
    /\ last = Op("new", 1, Undefined, Undefined, "none")
    /\ ops = 0
    /\ lnodes = <<>>
    /\ lists = <<>>
    /\ cache = NoCache
    /\ dset = NoSets

NextSets ==
    \/ \E node \in DsNodes : DsAdd(node)
    \/ \E node \in DsNodes : DsFind(node)
    \/ \E node \in DsNodes : DsFindOrAdd(node)
    \/ \E nodeA \in DsNodes, nodeB \in DsNodes : DsUnion(nodeA, nodeB)

SpecSets == InitSets /\ [][NextSets]_vars

\* ------------------------------------------------------------ claims
\* The nodes of tree t (all reachable from its root).
TreeNodes(t) == Range(inorder(nodes, trees[t].root))

Abs(x) == IF x < 0 THEN -x ELSE x

Bag(h, tr) == BagOfSeq(toArray(h, tr.root))

\* C1: after every operation every node reachable from the root satisfies
\* |height(left) - height(right)| <= 1, height being the real height of the
\* subtree (absent = 0).
C1_Balanced ==
    \A t \in DOMAIN trees : \A n \in TreeNodes(t) :
        Abs(RealHeight(nodes, nodes[n].left) - RealHeight(nodes, nodes[n].right)) <= 1

\* C2: toArray() is non-decreasing under the tree's comparator.
C2_Sorted ==
    \A t \in DOMAIN trees :
        LET a == toArray(nodes, trees[t].root)
        IN \A i \in 1..(Len(a) - 1) :
              Compare(itds, trees[t].comparator, a[i], a[i + 1]) <= 0

C2_Witness ==
    /\ last.op = "delete"
    /\ last.kind \in {"two-deep", "two-deep-right"}
    /\ Len(nodes) >= 4
    /\ \E i \in 1..(Len(nodes) - 1), j \in 1..Len(nodes) :
          nodes[i].value = nodes[j].value /\ i # j

\* C3: the tree stores a multiset: insert(v) adds one occurrence of v to
\* toArray() and a delete(v) that finds v removes exactly one occurrence of
\* v; nothing else is added, lost or duplicated.
C3_Multiset ==
    [][\A t \in DOMAIN trees :
          /\ (last'.op = "insert" /\ last'.t = t)
                => Bag(nodes', trees'[t]) = BagAdd(Bag(nodes, trees[t]), last'.arg)
          /\ (last'.op = "delete" /\ last'.t = t /\ last'.kind # "none")
                => Bag(nodes', trees'[t]) = BagRemove(Bag(nodes, trees[t]), last'.arg)
      ]_vars

\* C4: size() equals the number of nodes (the length of toArray()), which
\* is the number of inserts minus the number of deletes that removed a
\* node; isEmpty() is true exactly when that number is 0.
C4_Size ==
    \A t \in DOMAIN trees :
        /\ size(trees[t]) = Len(toArray(nodes, trees[t].root))
        /\ isEmpty(trees[t]) <=> (Len(toArray(nodes, trees[t].root)) = 0)

\* C5: every node's stored height is 1 + max of the stored heights of its
\* children (absent = 0), so height() is the real height of the tree.
C5_Heights ==
    \A t \in DOMAIN trees :
        /\ \A n \in TreeNodes(t) :
              nodes[n].height = 1 + Max(StoredHeight(nodes, nodes[n].left),
                                        StoredHeight(nodes, nodes[n].right))
        /\ height(nodes, trees[t]) = RealHeight(nodes, trees[t].root)

\* The valid query ranges.
Queries == {q \in QueryBounds \X QueryBounds \X BOOLEAN : q[1] <= q[2]}

\* The result of query q on tree t.
Answer(t, q) == query(nodes, itds, trees[t], q[1], q[2], q[3])

\* C6: query(lower, upper) with lower <= upper returns exactly the stored
\* entries (inserted and not deleted since) whose interval [lo, hi] satisfies
\* lo < upper /\ lower < hi, each exactly once, after any sequence of insert,
\* delete, filter and deleteInRange.
C6_QueryExact ==
    \A t \in DOMAIN trees : IsIntervalTree(trees[t]) =>
        \A lower, upper \in QueryBounds : lower <= upper =>
            BagOfSeq(query(nodes, itds, trees[t], lower, upper, FALSE))
              = {p \in ghost[t] : /\ rangeMapper(p[1])[1] < upper
                                  /\ lower < rangeMapper(p[1])[2]}

\* C7: delete(data) of a stored entry that shares its lower bound with
\* another stored entry removes exactly that entry: afterwards no query
\* returns data and every other entry is returned by the queries that
\* returned it before.
C7_DeleteByIdentity ==
    [][\A data \in DataUniverse :
          (/\ data \in StoredData(1)
           /\ \E other \in StoredData(1) \ {data} :
                 rangeMapper(other)[1] = rangeMapper(data)[1]
           /\ IntervalDelete(1, data))
          => \A q \in Queries :
                /\ data \notin Range(Answer(1, q)')
                /\ \A other \in Range(Answer(1, q)) \ {data} :
                      other \in Range(Answer(1, q)')
      ]_vars

\* C8: delete(d) of a stored entry d makes size() drop by exactly one and
\* the queries that follow do not return d.
C8_DeleteDropsSize ==
    [][\A data \in DataUniverse :
          (data \in StoredData(1) /\ IntervalDelete(1, data))
          => /\ size(trees'[1]) = size(trees[1]) - 1
             /\ \A q \in Queries : data \notin Range(Answer(1, q)')
      ]_vars

\* What the owner of IntervalTree t can observe: size(), values() and the
\* result of every query (hasOverlap says whether that result is empty).
IntervalObserved(t) ==
    <<size(trees[t]), intervalValues(nodes, itds, trees[t]),
      [q \in Queries |-> Answer(t, q)],
      [q \in Queries |-> hasOverlap(nodes, itds, trees[t], q[1], q[2], q[3])]>>

\* C9: after clone(), an insert, delete, filter or deleteInRange on one of
\* the two IntervalTrees leaves size(), values() and the result of every
\* query and hasOverlap on the other one unchanged.
C9_IntervalCloneIndependent ==
    [][(Len(trees) = 2 /\ last'.op \in {"insert", "delete", "filter", "deleteInRange"})
          => \A u \in DOMAIN trees :
                u # last'.t => IntervalObserved(u)' = IntervalObserved(u)
      ]_vars

\* The shape of a subtree with its values and stored heights.
RECURSIVE Shape(_, _)
Shape(h, n) ==
    IF n = NULL THEN <<>>
    ELSE <<Shape(h, h[n].left), h[n].value, h[n].height, Shape(h, h[n].right)>>

\* What the other tree's owner can observe: toArray(), size(), height().
Observed(h, tr) == <<toArray(h, tr.root), size(tr), height(h, tr)>>

\* C10: clone() returns a tree with the same size(), in-order sequence and
\* shape, built from new nodes; any later insert, delete, rebuild or clear
\* on one of the two trees leaves toArray(), size() and height() of the
\* other unchanged.
C10_CloneIndependent ==
    [][/\ last'.op = "clone" =>
            /\ Len(trees') = 2
            /\ size(trees'[2]) = size(trees'[1])
            /\ Shape(nodes', trees'[2].root) = Shape(nodes', trees'[1].root)
            /\ Shape(nodes', trees'[1].root) = Shape(nodes, trees[1].root)
            /\ TreeNodes(1)' \cap TreeNodes(2)' = {}
       /\ (last'.op \in {"insert", "delete", "rebuild", "clear"} /\ Len(trees) = 2) =>
            \A u \in DOMAIN trees :
                u # last'.t => Observed(nodes', trees'[u]) = Observed(nodes, trees[u])
      ]_vars

C10_Witness ==
    /\ Len(trees) = 2
    /\ last.op = "delete"
    /\ last.kind \in {"two-right", "two-deep"}
    /\ \E u \in DOMAIN trees : u # last.t /\ Len(toArray(nodes, trees[u].root)) >= 3


\* ------------------------------------------------------ interval claims
\* The bag of the entries IntervalTree t holds in its nodes.
HeldEntries(t) ==
    LET ids == toArray(nodes, trees[t].root)
    IN BagOfSeq([i \in DOMAIN ids |-> itds[ids[i]].data])

\* The maxUpperBound a node should store: the largest upper bound among its
\* own entry and the stored maxUpperBound of the children it has.
ExpectedMaxUpperBound(n) ==
    LET bounds == {itds[nodes[n].value].upperBound}
                  \cup {itds[nodes[c].value].maxUpperBound :
                           c \in {nodes[n].left, nodes[n].right} \ {NULL}}
    IN CHOOSE m \in bounds : \A b \in bounds : b <= m

\* C11: after every insert and delete on an IntervalTree every node stores
\* maxUpperBound = max(its upper bound, the maxUpperBound of its left child,
\* the maxUpperBound of its right child), absent children ignored.
C11_MaxUpperBound ==
    \A t \in DOMAIN trees :
        IsIntervalTree(trees[t]) =>
            \A n \in TreeNodes(t) :
                itds[nodes[n].value].maxUpperBound = ExpectedMaxUpperBound(n)


\* The tree holds the six sample objects and the last call was
\* query(5, 10, inclusive).
SampleQueried(inclusive) ==
    /\ last.op = "query"
    /\ last.arg = <<SampleData[6].lower, SampleData[6].upper, inclusive>>
    /\ StoredData(1) = Range(SampleData)

\* A, B and F: [1,5] and [10,15] touch the query (5, 10) at an end, [5,10]
\* is the queried interval itself.
Touching == {SampleData[1], SampleData[2], SampleData[6]}

\* C12 as stated: on the sample tree the exclusive query(5, 10) returns none
\* of [5,10], [1,5] and [10,15], and query(5, 10, true) returns all three.
C12_ExclusiveExcludesItself ==
    /\ SampleQueried(FALSE) => Range(last.ret) \cap Touching = {}
    /\ SampleQueried(TRUE) => Touching \subseteq Range(last.ret)

\* C12 amended: on the sample tree the exclusive query(5, 10) returns [5,10]
\* and neither [1,5] nor [10,15], and query(5, 10, true) returns all three.
C12_TouchSemantics ==
    /\ SampleQueried(FALSE) => Range(last.ret) \cap Touching = {SampleData[6]}
    /\ SampleQueried(TRUE) => Touching \subseteq Range(last.ret)

C12_Witness == SampleQueried(FALSE)


\* C13: query(lower, upper, true) returns exactly the stored entries
\* (inserted and not deleted since) with lo <= upper /\ lower <= hi, each
\* once, in every state reached by inserts and deletes.
C13_InclusiveQueryExact ==
    \A t \in DOMAIN trees : IsIntervalTree(trees[t]) =>
        \A lower, upper \in QueryBounds : lower <= upper =>
            BagOfSeq(query(nodes, itds, trees[t], lower, upper, TRUE))
              = {p \in ghost[t] : /\ rangeMapper(p[1])[1] <= upper
                                  /\ lower <= rangeMapper(p[1])[2]}


\* C14: hasOverlap(lower, upper, inclusive) with lower <= upper returns true
\* exactly when query(lower, upper, inclusive) on the same tree is not
\* empty, for both values of inclusive, and the call leaves the tree as it
\* was.
C14_HasOverlapIffQuery ==
    [][(last'.op = "hasOverlap" /\ last'.kind = "none")
          => /\ last'.ret = <<query(nodes, itds, trees[last'.t], last'.arg[1],
                                    last'.arg[2], last'.arg[3]) # <<>> >>
             /\ UNCHANGED <<nodes, itds, trees>>
      ]_vars

\* hasOverlap has answered true for a range that stored entries only touch.
C14_Witness ==
    /\ last.op = "hasOverlap"
    /\ last.kind = "none"
    /\ last.ret = <<TRUE>>
    /\ last.arg[3] = TRUE
    /\ query(nodes, itds, trees[last.t], last.arg[1], last.arg[2], FALSE) = <<>>


\* C15: query, hasOverlap and deleteInRange called with lower > upper raise
\* a RangeError and leave the tree unchanged, whatever the tree holds, also
\* when it is empty.
C15_InvalidRangeRaises ==
    [][/\ (last'.op \in {"query", "hasOverlap"} /\ last'.arg[1] > last'.arg[2])
          => /\ last'.kind = "RangeError"
             /\ UNCHANGED <<nodes, itds, trees>>
       /\ \A lower, upper \in RangeBounds, inclusive \in BOOLEAN :
             (/\ lower > upper
              /\ last'.op = "deleteInRange"
              /\ IntervalDeleteInRange(1, lower, upper, inclusive))
             => /\ last'.kind = "RangeError"
                /\ UNCHANGED <<nodes, itds, trees>>
      ]_vars


\* C16: insert(data) with lower > upper raises a RangeError and leaves
\* size(), the stored entries and the result of every query unchanged; an
\* insert with lower = upper raises nothing and the entry is stored.
C16_InsertValidates ==
    [][\A data \in CloneUniverse :
          (last'.op = "insert" /\ IntervalInsert(1, data, MaxRangeEntries))
          => /\ rangeMapper(data)[1] > rangeMapper(data)[2]
                => /\ last'.kind = "RangeError"
                   /\ IntervalObserved(1)' = IntervalObserved(1)
                   /\ HeldEntries(1)' = HeldEntries(1)
             /\ rangeMapper(data)[1] = rangeMapper(data)[2]
                => /\ last'.kind = "none"
                   /\ size(trees'[1]) = size(trees[1]) + 1
                   /\ Count(HeldEntries(1)', data) = Count(HeldEntries(1), data) + 1
      ]_vars

\* An insert on a tree that holds entries has raised the RangeError.
C16_Witness ==
    /\ last.op = "insert"
    /\ last.kind = "RangeError"
    /\ size(trees[1]) > 0


\* The bag of the entries of bag that are not in the array arr.
Without(bag, arr) == {p \in bag : p[1] \notin Range(arr)}

\* C17: deleteInRange(lower, upper, inclusive) with lower <= upper returns
\* and removes exactly the entries query(lower, upper, inclusive) returned
\* just before: afterwards that query is empty, every other entry is still
\* held and size() has dropped by the number of returned entries.  filter(p)
\* removes exactly the entries with p false and size() drops by their number,
\* so filter(() => false) leaves an empty tree.
C17_DeleteInRangeExact ==
    [][/\ \A lower, upper \in RangeBounds, inclusive \in BOOLEAN :
             (/\ lower <= upper
              /\ last'.op = "deleteInRange"
              /\ IntervalDeleteInRange(1, lower, upper, inclusive))
             => /\ BagOfSeq(intervalDeleteInRange(nodes, itds, trees[1], lower,
                                                  upper, inclusive).deleted)
                     = BagOfSeq(Answer(1, <<lower, upper, inclusive>>))
                /\ Answer(1, <<lower, upper, inclusive>>)' = <<>>
                /\ HeldEntries(1)'
                     = Without(HeldEntries(1), Answer(1, <<lower, upper, inclusive>>))
                /\ size(trees'[1])
                     = size(trees[1]) - Len(Answer(1, <<lower, upper, inclusive>>))
       /\ \A keep \in SUBSET StoredData(1) :
             (last'.op = "filter" /\ IntervalFilter(1, keep))
             => /\ HeldEntries(1)' = {p \in HeldEntries(1) : p[1] \in keep}
                /\ size(trees'[1])
                     = Cardinality({p \in HeldEntries(1) : p[1] \in keep})
                /\ keep = {} => isEmpty(trees'[1])
      ]_vars


\* The elements of the array arr that are in the set keep, in order.
Restrict(arr, keep) == SelectSeq(arr, LAMBDA v : v \in keep)

\* C18: BinarySearchTree.filter(p) deletes exactly the stored values with p
\* false and returns them: afterwards toArray() is the previous toArray()
\* restricted to the values with p true, size() is its length, and the
\* returned array holds each removed value once per removed occurrence.
C18_FilterExact ==
    [][\A keep \in SUBSET Values :
          (last'.op = "filter" /\ Filter(1, keep))
          => /\ toArray(nodes', trees'[1].root)
                  = Restrict(toArray(nodes, trees[1].root), keep)
             /\ size(trees'[1]) = Len(toArray(nodes', trees'[1].root))
             /\ BagOfSeq(filter(nodes, itds, trees[1], keep).deleted)
                  = BagOfSeq(Restrict(toArray(nodes, trees[1].root), Values \ keep))
      ]_vars


\* C19: in every IntervalTree state reached by inserts and deletes, values()
\* yields every stored entry (inserted and not deleted since) exactly once,
\* and the number of entries it yields is size().
C19_ValuesOncePerEntry ==
    \A t \in DOMAIN trees : IsIntervalTree(trees[t]) =>
        /\ \A p \in ghost[t] :
              Count(BagOfSeq(intervalValues(nodes, itds, trees[t])), p[1]) = 1
        /\ Len(intervalValues(nodes, itds, trees[t])) = size(trees[t])


\* C20: delete(value) of a value that no node of the tree holds returns
\* undefined and leaves size(), toArray(), height() and every node's stored
\* height and child links unchanged.
C20_DeleteAbsentNoOp ==
    [][\A t \in DOMAIN trees :
          (/\ last'.op = "delete"
           /\ last'.t = t
           /\ last'.arg \notin Range(toArray(nodes, trees[t].root)))
          => /\ last'.ret = NULL
             /\ size(trees'[t]) = size(trees[t])
             /\ toArray(nodes', trees'[t].root) = toArray(nodes, trees[t].root)
             /\ height(nodes', trees'[t]) = height(nodes, trees[t])
             /\ Shape(nodes', trees'[t].root) = Shape(nodes, trees[t].root)
      ]_vars


\* C21: delete(data) of data the tree does not store (never inserted, or
\* deleted before) raises nothing and leaves size(), values() and the result
\* of every query and hasOverlap unchanged.
C21_DeleteNotStoredNoOp ==
    [][\A data \in DataUniverse :
          (/\ ~InBag(ghost[1], data)
           /\ last'.op = "delete"
           /\ IntervalDelete(1, data))
          => /\ last'.kind = "none"
             /\ IntervalObserved(1)' = IntervalObserved(1)
      ]_vars


\* ---------------------------------------------------------- tree claims
\* The node delete(value) removes: the first node on the search path whose
\* value is the given one (NULL when there is none).
RECURSIVE FoundNode(_, _, _, _, _)
FoundNode(h, d, cmp, node, value) ==
    IF node = NULL THEN NULL
    ELSE IF value = h[node].value THEN node
    ELSE IF Compare(d, cmp, value, h[node].value) < 0
    THEN FoundNode(h, d, cmp, h[node].left, value)
    ELSE FoundNode(h, d, cmp, h[node].right, value)

\* The node that follows n in the in-order walk of its right subtree when n
\* has two children, its only child when it has one, NULL otherwise.
ExpectedSuccessor(h, n) ==
    IF n = NULL THEN NULL
    ELSE IF h[n].left # NULL /\ h[n].right # NULL THEN Head(inorder(h, h[n].right))
    ELSE IF h[n].left # NULL THEN h[n].left
    ELSE h[n].right

Matched(v) == FoundNode(nodes, itds, trees[1].comparator, trees[1].root, v)

C24_MinMax ==
    \A t \in DOMAIN trees :
        ~IsIntervalTree(trees[t]) =>
            LET a == toArray(nodes, trees[t].root)
                cmp == trees[t].comparator
            IN IF a = <<>>
               THEN min(nodes, trees[t]) = NULL /\ max(nodes, trees[t]) = NULL
               ELSE /\ min(nodes, trees[t]) = a[1]
                    /\ max(nodes, trees[t]) = a[Len(a)]
                    /\ \A i \in DOMAIN a :
                          /\ Compare(itds, cmp, min(nodes, trees[t]), a[i]) <= 0
                          /\ Compare(itds, cmp, a[i], max(nodes, trees[t])) <= 0

\* A tree ordered by the descending comparator holds both values after a
\* delete of a node with two children: min() is the larger value.
C24_Witness ==
    /\ trees[1].comparator = "descending"
    /\ last.op = "delete"
    /\ last.kind \in {"two-right", "two-deep"}
    /\ min(nodes, trees[1]) = MaxVal
    /\ max(nodes, trees[1]) = 1
    /\ Len(nodes) >= 4


\* array with its elements at i and j exchanged.  Every permutation of an
\* array is a product of exchanges of two neighbours.
Exchanged(array, i, j) ==
    [k \in DOMAIN array |-> IF k = i THEN array[j] ELSE IF k = j THEN array[i]
                            ELSE array[k]]

\* The number of elements of array the comparator puts before v, and the
\* number of those it does not put after v.
Before(array, cmp, v) ==
    Cardinality({k \in DOMAIN array : Compare(<<>>, cmp, array[k], v) < 0})

UpTo(array, cmp, v) ==
    Cardinality({k \in DOMAIN array : Compare(<<>>, cmp, array[k], v) <= 0})

\* array sorted by the comparator cmp, duplicates kept: place i holds the
\* value with fewer than i elements before it and at least i up to it.
Sorted(array, cmp) ==
    [i \in DOMAIN array |->
        CHOOSE v \in Range(array) : Before(array, cmp, v) < i /\ i <= UpTo(array, cmp, v)]

\* C25: fromArray(values, comparator) returns a tree with size() ==
\* values.length whose toArray() is values sorted by the comparator with
\* duplicates kept; fromArray of the same values in another order (two
\* neighbours exchanged, for every array) has the same size() and toArray().
C25_FromArraySorts ==
    last.op = "fromArray" =>
        /\ size(trees[1]) = Len(last.arg)
        /\ toArray(nodes, trees[1].root) = Sorted(last.arg, trees[1].comparator)
        /\ \A i \in 1..(Len(last.arg) - 1) :
              Let(fromArray(<<>>, Exchanged(last.arg, i, i + 1), trees[1].cls,
                            trees[1].comparator),
                  LAMBDA r : /\ size(r.tree) = size(trees[1])
                             /\ toArray(r.h, r.tree.root)
                                  = toArray(nodes, trees[1].root))

\* fromArray has built a tree from an unsorted array with a duplicate.
C25_Witness ==
    /\ last.op = "fromArray"
    /\ Len(last.arg) = MaxArrayLen
    /\ ~IsSorted(last.arg, trees[1].comparator)
    /\ Cardinality(Range(last.arg)) = 2
    /\ toArray(nodes, trees[1].root) # last.arg

\* ceil(log2(n + 1)): the least k with 2^k >= n + 1.
MinimalHeight(n) == CHOOSE k \in 0..n : 2^k >= n + 1 /\ \A j \in 0..(k - 1) : 2^j < n + 1

\* C26: fromSortedArray(a) for a sorted array a of length n returns a tree
\* with size() == n and toArray() == a, of height ceil(log2(n + 1)), whose
\* nodes store 1 + the larger of their children's heights and satisfy the
\* AVL balance condition.
C26_FromSortedArrayMinimal ==
    last.op = "fromSortedArray" =>
        /\ size(trees[1]) = Len(last.arg)
        /\ toArray(nodes, trees[1].root) = last.arg
        /\ height(nodes, trees[1]) = MinimalHeight(Len(last.arg))
        /\ RealHeight(nodes, trees[1].root) = MinimalHeight(Len(last.arg))
        /\ \A n \in TreeNodes(1) :
              /\ nodes[n].height = 1 + Max(StoredHeight(nodes, nodes[n].left),
                                           StoredHeight(nodes, nodes[n].right))
              /\ Abs(RealHeight(nodes, nodes[n].left)
                       - RealHeight(nodes, nodes[n].right)) <= 1

\* fromSortedArray has built a tree of the largest array, with a duplicate.
C26_Witness ==
    /\ last.op = "fromSortedArray"
    /\ Len(last.arg) = MaxArrayLen
    /\ Cardinality(Range(last.arg)) < Len(last.arg)
    /\ height(nodes, trees[1]) = MinimalHeight(MaxArrayLen)


\* C27: rebuild() leaves toArray() and size() unchanged and leaves a tree of
\* minimal height for the number n of values it holds, height() ==
\* ceil(log2(n + 1)), with the heights of the two subtrees of every node at
\* most 1 apart.
C27_RebuildMinimal ==
    [][(last'.op = "rebuild" /\ Rebuild(1))
          => /\ toArray(nodes', trees'[1].root) = toArray(nodes, trees[1].root)
             /\ size(trees'[1]) = size(trees[1])
             /\ height(nodes', trees'[1])
                  = MinimalHeight(Len(toArray(nodes, trees[1].root)))
             /\ RealHeight(nodes', trees'[1].root) = height(nodes', trees'[1])
             /\ \A n \in TreeNodes(1)' :
                   Abs(RealHeight(nodes', nodes'[n].left)
                         - RealHeight(nodes', nodes'[n].right)) <= 1
      ]_vars

\* rebuild() has run on a tree reached by inserts and deletes that holds a
\* duplicate and fewer nodes than size() says.
C27_Witness ==
    /\ last.op = "rebuild"
    /\ Len(nodes) >= 4
    /\ size(trees[1]) > Len(nodes)
    /\ Cardinality(Range(toArray(nodes, trees[1].root))) < Len(nodes)


\* C28: after clear() on an AVLTree, a BinarySearchTree or an IntervalTree,
\* size() is 0, isEmpty() is true, toArray() / values() is empty, min() and
\* max() are undefined, every query is empty and hasOverlap is false; a
\* second clear() leaves nodes, entries and tree as they are.
C28_ClearEmpties ==
    last.op = "clear" =>
        /\ size(trees[last.t]) = 0
        /\ isEmpty(trees[last.t])
        /\ toArray(nodes, trees[last.t].root) = <<>>
        /\ IF IsIntervalTree(trees[last.t])
           THEN /\ intervalValues(nodes, itds, trees[last.t]) = <<>>
                /\ \A q \in Queries :
                      /\ Answer(last.t, q) = <<>>
                      /\ ~hasOverlap(nodes, itds, trees[last.t], q[1], q[2], q[3])
           ELSE /\ min(nodes, trees[last.t]) = NULL
                /\ max(nodes, trees[last.t]) = NULL
        /\ Collect(nodes, itds, [trees EXCEPT ![last.t] = clear(@)])
             = [nodes |-> nodes, itds |-> itds, trees |-> trees]

\* clear() has run on an IntervalTree.
C28_Witness ==
    /\ last.op = "clear"
    /\ IsIntervalTree(trees[last.t])
    /\ nodes = <<>>
    /\ itds = <<>>


\* -------------------------------------------------------- list claims
\* The nodes of list l in order, and arr without the node n.
ListNodes(l) == values(lnodes, lists[l])

Except(arr, n) == SelectSeq(arr, LAMBDA x : x # n)

\* C29: deleteNode(node) of a disposed node returns false and leaves the
\* list (head, tail, order of the nodes, size()) and the nodes unchanged;
\* deleteNode of a node that is in the list returns true, drops size() by
\* one, takes the node out of the order of the nodes and disposes it.
C29_DeleteDisposedNoOp ==
    [][\A l \in DOMAIN lists, n \in DOMAIN lnodes :
          (last'.op = "deleteNode" /\ ListDeleteNode(l, n))
          => /\ lnodes[n].isDisposed
                => /\ last'.ret = FALSE
                   /\ UNCHANGED <<lnodes, lists>>
             /\ (~lnodes[n].isDisposed /\ n \in Range(ListNodes(l)))
                => /\ last'.ret = TRUE
                   /\ size(lists'[l]) = size(lists[l]) - 1
                   /\ ListNodes(l)' = Except(ListNodes(l), n)
                   /\ lnodes'[n] = [lnodes[n] EXCEPT !.isDisposed = TRUE,
                                                     !.next = NULL, !.prev = NULL]
                   /\ \A u \in DOMAIN lists \ {l} : lists'[u] = lists[u]
      ]_vars

\* deleteNode has been handed a node that an earlier deleteNode had taken
\* out of the middle of the list.
C29_Witness ==
    /\ last.op = "deleteNode"
    /\ last.ret = FALSE
    /\ lnodes[last.arg].isDisposed
    /\ Len(ListNodes(last.t)) >= 2
    /\ last.arg > 1
    /\ last.arg < Len(lnodes)

\* C30: deleteNode(node) of a node that is not in the list (a new ListNode,
\* or the head, the tail or an inner node of the other list) returns false
\* and changes neither list: heads, tails, sizes, nodes and their links
\* stay as they are.
C30_DeleteForeignNoOp ==
    [][\A l \in DOMAIN lists, n \in DOMAIN lnodes :
          (/\ last'.op = "deleteNode"
           /\ ~lnodes[n].isDisposed
           /\ n \notin Range(ListNodes(l))
           /\ ListDeleteNode(l, n))
          => /\ last'.ret = FALSE
             /\ UNCHANGED <<lnodes, lists>>
      ]_vars

\* ------------------------------------------------------- cache claims
\* C31: an LRUCache with capacity c >= 1 never holds more than c keys; it
\* holds exactly the keys, with the values of their latest set, that the
\* calls made so far leave when a set of a new key at size() = c evicts the
\* least recently used key (get of a present key and set both count as a
\* use) and a set of an existing key evicts nothing; get(k) returns that
\* value, or undefined when k was evicted, deleted or cleared.
C31_LruCache ==
    /\ lruSize(cache) <= cache.capacity
    /\ DOMAIN cache.map = GhostKeys(ghost)
    /\ \A k \in DOMAIN cache.map : cache.map[k].value = GhostValue(ghost, k)
    /\ last.op = "get" => last.ret = GhostValue(ghost, last.arg)

\* A set of a new key on a full cache of capacity 2 has just evicted a key.
C31_Witness ==
    /\ last.op = "set"
    /\ last.kind = "evict"
    /\ cache.capacity = 2
    /\ lruSize(cache) = 2

Find(ds, x) == dsFind(ds, x).ret

\* The set ds answers as the partition g says.
Represents(ds, g) ==
    /\ \A x \in GhostAdded(g) :
          /\ Find(ds, x) \in GhostBlock(g, x)
          /\ Find(ds, Find(ds, x)) = Find(ds, x)
    /\ \A a \in GhostAdded(g), b \in GhostAdded(g) :
          (Find(ds, a) = Find(ds, b)) <=> (GhostBlock(g, a) = GhostBlock(g, b))
    /\ \A x \in DsNodes \ GhostAdded(g) : Find(ds, x) = Undefined

\* C33: after any sequence of add, union, find and findOrAdd on nodes of
\* any value, find(x) of an added node is the representative r of its set
\* with find(r) = r; find(a) = find(b) exactly when a chain of unions
\* connects a and b; find of a node never added is undefined; and union(a,
\* b) returns false exactly when a and b were in the same set already (a
\* node is in the same set as itself).
C33_DisjointSet ==
    [][/\ Represents(dset', ghost')
       /\ \A a \in DsNodes, b \in DsNodes :
             (last'.op = "union" /\ DsUnion(a, b))
             => (last'.kind = "false"
                   <=> \/ a = b
                       \/ /\ a \in GhostAdded(ghost)
                          /\ b \in GhostAdded(ghost)
                          /\ GhostBlock(ghost, a) = GhostBlock(ghost, b))
      ]_vars

\* ------------------------------------------------- tree-shape claims
\* The values stored in the subtree under node n.
SubtreeValues(h, n) == Range(toArray(h, n))

\* C34: at every node of an AVLTree/BinarySearchTree, after any inserts
\* and deletes (equal values included), every value in the left subtree
\* compares strictly less than the node's value and every value in the
\* right subtree compares greater or equal, under the tree's comparator.
C34_StrictLeft ==
    \A n \in DOMAIN nodes :
        /\ \A v \in SubtreeValues(nodes, nodes[n].left) :
              Compare(itds, trees[1].comparator, v, nodes[n].value) < 0
        /\ \A v \in SubtreeValues(nodes, nodes[n].right) :
              Compare(itds, trees[1].comparator, v, nodes[n].value) >= 0

\* How many nodes of the tree under root hold the value v.
Holding(h, root, v) ==
    Cardinality({i \in DOMAIN toArray(h, root) : toArray(h, root)[i] = v})

\* C35: when some node of the tree holds exactly the value passed (the same
\* object), delete(value) finds and removes such a node, also when other
\* stored values compare equal to it under the comparator: the size drops
\* by one and one node fewer holds the value.
C35_DeleteFindsIdentical ==
    [][\A v \in KeyedValues :
          (/\ last'.op = "delete"
           /\ Holding(nodes, trees[1].root, v) > 0
           /\ Delete(1, v))
          => /\ size(trees'[1]) = size(trees[1]) - 1
             /\ Holding(nodes', trees'[1].root, v) < Holding(nodes, trees[1].root, v)
      ]_vars

\* C36: after insert calls only (any order, duplicates allowed), the AVL
\* balance condition holds at every node and every node's stored height is
\* its real height.
C36_InsertKeepsAvl ==
    \A n \in DOMAIN nodes :
        /\ Abs(RealHeight(nodes, nodes[n].left) - RealHeight(nodes, nodes[n].right)) <= 1
        /\ nodes[n].height = RealHeight(nodes, n)

\* MaxInsertNodes inserts have been made, duplicates among them, and have
\* left a tree of height 3 (which a chain of six nodes would exceed).
C36_Witness ==
    /\ last.op = "insert"
    /\ Len(nodes) = MaxInsertNodes
    /\ size(trees[1]) = MaxInsertNodes
    /\ Cardinality({nodes[n].value : n \in DOMAIN nodes}) < Len(nodes)
    /\ RealHeight(nodes, trees[1].root) = 3

\* The value of the parent of the node holding v in the tree under root
\* (values are distinct here), NULL for the root.
ParentValue(h, root, v) ==
    IF h[root].value = v THEN NULL
    ELSE h[CHOOSE p \in DOMAIN h :
              \E c \in {h[p].left, h[p].right} : c # NULL /\ h[c].value = v].value

\* The nodes, by value, whose parent differs between the two trees.
Reparented(h, root, h2, root2) ==
    {v \in SubtreeValues(h, root) : ParentValue(h, root, v) # ParentValue(h2, root2, v)}

ValueOf(h, n) == IF n = NULL THEN {} ELSE {h[n].value}

AvlWithHeights(h, root) ==
    \A n \in Range(inorder(h, root)) :
        /\ Abs(RealHeight(h, h[n].left) - RealHeight(h, h[n].right)) <= 1
        /\ h[n].height = RealHeight(h, n)

\* What balance() on node n of heap h must leave in heap h2 under root n2:
\* bf and the children are read before the call.
BalancedAs(h, n, h2, n2) ==
    LET left == h[n].left
        right == h[n].right
        bf == RealHeight(h, left) - RealHeight(h, right)
        bfOf(c) == RealHeight(h, h[c].left) - RealHeight(h, h[c].right)
    IN /\ toArray(h2, n2) = toArray(h, n)
       /\ AvlWithHeights(h2, n2)
       /\ IF bf > 1
          THEN IF bfOf(left) < 0
               \* left-right: the left child's right child comes on top and
               \* hands its two children to the left child and to the node.
               THEN /\ n2 # NULL /\ h2[n2].value = h[h[left].right].value
                    /\ Reparented(h, n, h2, n2)
                         = ValueOf(h, n) \cup ValueOf(h, left) \cup ValueOf(h, h[left].right)
                           \cup ValueOf(h, h[h[left].right].left)
                           \cup ValueOf(h, h[h[left].right].right)
               \* right: the left child comes on top and hands its right
               \* child to the node.
               ELSE /\ h2[n2].value = h[left].value
                    /\ Reparented(h, n, h2, n2)
                         = ValueOf(h, n) \cup ValueOf(h, left) \cup ValueOf(h, h[left].right)
          ELSE IF bf < -1
          THEN IF bfOf(right) > 0
               THEN /\ h2[n2].value = h[h[right].left].value
                    /\ Reparented(h, n, h2, n2)
                         = ValueOf(h, n) \cup ValueOf(h, right) \cup ValueOf(h, h[right].left)
                           \cup ValueOf(h, h[h[right].left].left)
                           \cup ValueOf(h, h[h[right].left].right)
               ELSE /\ h2[n2].value = h[right].value
                    /\ Reparented(h, n, h2, n2)
                         = ValueOf(h, n) \cup ValueOf(h, right) \cup ValueOf(h, h[right].left)
          ELSE /\ h2[n2].value = h[n].value
               /\ Reparented(h, n, h2, n2) = {}

\* C37: balance() on a node whose two subtrees are balanced with correct
\* stored heights and differ in height by at most 2 returns the root of a
\* subtree with the same in-order sequence, balanced at every node and with
\* correct stored heights.  With bf > 1 the left child comes on top (its
\* right child when bf(left) < 0, after the rotation of the left child),
\* with bf < -1 the right child (its left child when bf(right) > 0),
\* otherwise the node stays.  Besides the nodes rotated, each rotation
\* gives a new parent to one grandchild slot only: the right child of the
\* node that comes up in a right rotation, its left child in a left one,
\* when that child exists.
C37_BalanceRestores ==
    [][(/\ last'.op = "balance"
        /\ AvlWithHeights(nodes, nodes[trees[1].root].left)
        /\ AvlWithHeights(nodes, nodes[trees[1].root].right)
        /\ Abs(RealHeight(nodes, nodes[trees[1].root].left)
               - RealHeight(nodes, nodes[trees[1].root].right)) <= 2)
          => BalancedAs(nodes, trees[1].root, nodes', trees'[1].root)
      ]_vars

\* balance() has made a double rotation in which the node that came on top
\* handed over two children.
C37_Witness ==
    /\ last.op = "balance"
    /\ last.kind = "left-right"
    /\ LET root == trees[1].root
       IN /\ nodes[nodes[root].left].right # NULL
          /\ nodes[nodes[root].right].left # NULL

\* The nodes reachable from root form a binary tree: the root is no one's
\* child and every other node fills exactly one child slot.
TreeShaped(h, root) ==
    Let(Range(Preorder(h, <<root>>, <<>>)), LAMBDA R :
        \A n \in R :
            Cardinality({p \in R : h[p].left = n}) + Cardinality({p \in R : h[p].right = n})
              = IF n = root THEN 0 ELSE 1)

\* C38: after any sequence of insert, delete and rebuild calls the nodes
\* reachable from the root form a finite binary tree, no node reachable by
\* two paths and none its own descendant; a node removed by delete keeps
\* no child links and is not reachable from the root.
C38_StaysATree ==
    [][/\ TreeShaped(nodes', trees'[1].root)
       /\ \A v \in Values :
             (last'.op = "delete" /\ Delete(1, v))
             => Let(delete(nodes, itds, trees[1], v), LAMBDA r :
                  Let(FoundNode(nodes, itds, trees[1].comparator, trees[1].root, v),
                      LAMBDA node :
                        node # NULL =>
                          /\ TreeShaped(r.h, r.tree.root)
                          /\ r.h[node].left = NULL
                          /\ r.h[node].right = NULL
                          /\ node \notin Range(Preorder(r.h, <<r.tree.root>>, <<>>))))
      ]_vars

\* delete has removed a node with two children whose successor lay below
\* the right child, the case in which the successor's old parent must let
\* go of it, and at least five nodes remain.
C38_Witness ==
    /\ last.op = "delete"
    /\ last.kind = "two-deep"
    /\ Len(nodes) >= 5
    /\ size(trees[1]) = Len(nodes)

\* ------------------------------------------------ maxUpperBound claims
\* C39: in every IntervalTree state reached by inserts and deletes
\* (rotations included) each node's stored maxUpperBound is at least the
\* largest upper bound stored in that node's subtree, so a query that skips
\* a left subtree whose maxUpperBound is below its lower bound skips no
\* overlapping entry: every entry in the tree that matches is returned.
C39_MaxUpperBoundCovers ==
    \A t \in DOMAIN trees :
        IsIntervalTree(trees[t]) =>
            /\ \A n \in TreeNodes(t) : \A m \in Range(inorder(nodes, n)) :
                  itds[nodes[m].value].upperBound <= itds[nodes[n].value].maxUpperBound
            /\ \A q \in Queries : \A m \in TreeNodes(t) :
                  Matches(q[1], q[2], q[3], itds[nodes[m].value].lowerBound,
                          itds[nodes[m].value].upperBound)
                  => itds[nodes[m].value].data
                       \in Range(query(nodes, itds, trees[t], q[1], q[2], q[3]))

\* ------------------------------------------------ list link claims
\* C40: after every append, prepend, insertBefore, insertAfter and
\* deleteNode whose node argument is a node of the list, head.prev and
\* tail.next are undefined, n.next.prev is n and n.prev.next is n for every
\* node n of the list that has that neighbour, the walk from the head along
\* next visits exactly size() nodes, no node twice, and ends at the tail,
\* and head and tail are both undefined exactly when size() is 0.
C40_ListLinks ==
    \A l \in DOMAIN lists :
        Let(values(lnodes, lists[l]), LAMBDA walk :
            /\ lists[l].head # NULL => lnodes[lists[l].head].prev = NULL
            /\ lists[l].tail # NULL => lnodes[lists[l].tail].next = NULL
            /\ \A i \in DOMAIN walk :
                  /\ lnodes[walk[i]].next # NULL
                        => lnodes[lnodes[walk[i]].next].prev = walk[i]
                  /\ lnodes[walk[i]].prev # NULL
                        => lnodes[lnodes[walk[i]].prev].next = walk[i]
            /\ Len(walk) = lists[l].size
            /\ \A i, j \in DOMAIN walk : walk[i] = walk[j] => i = j
            /\ walk # <<>> => walk[Len(walk)] = lists[l].tail
            /\ lists[l].head = NULL <=> lists[l].size = 0
            /\ lists[l].tail = NULL <=> lists[l].size = 0)

\* deleteNode has removed a node of a list that held three: two nodes are
\* left, linked to each other, and the head is a node made after the tail
\* (by prepend or insertBefore).
C40_Witness ==
    /\ last.op = "deleteNode"
    /\ last.ret
    /\ lists[last.t].size = 2
    /\ lists[last.t].head # lists[last.t].tail
    /\ lnodes[lists[last.t].head].next = lists[last.t].tail
    /\ lists[last.t].head > lists[last.t].tail

====
